---- MODULE Spec2Model ----
(***************************************************************************)
(* Model of the caption engine of src/ytdlp/ytdlp_mcp.py (YtDlpService):   *)
(* chapter-range resolution, cue extraction per time range, deduplication  *)
(* and the assembly of the chaptered transcript.                           *)
(*                                                                         *)
(* Text is modelled by strings, character by character.  Times are the     *)
(* code's float seconds, held exactly as integer milliseconds.             *)
(***************************************************************************)
EXTENDS Integers, Sequences, FiniteSets, TLC

VARIABLES
    chapters,           \* extract_subtitles argument, as the caller passed it
    info,               \* what yt-dlp returns for the video (extract_info)
    response,           \* the dict extract_subtitles returns
    cues,               \* the caption stream the raw text was written from
    vtt_content,        \* _process_vtt_content argument: the raw caption text
    selected_chapters,  \* argument, then the sorted list (line 200)
    all_chapters,       \* argument; <<>> stands for None or []
    video_duration,     \* argument, milliseconds
    lines,              \* vtt_content.split("\n")
    k,                  \* position of the chapter loop (line 204), 1-based
    i,                  \* the local `i` of _process_vtt_content (lines 217, 246)
    chapter_ranges,     \* list of {"start", "end", "title"}
    r,                  \* position of the range loop (line 256), 1-based
    subtitle_segments,  \* _extract_subtitles_for_timerange: sorted segments
    seg,                \* position of the dedupe loop (line 423), 1-based
    processed_lines,    \* dedupe: emitted lines
    seen_texts,         \* dedupe: texts recorded as seen
    result,             \* list of headings and bodies (line 255)
    output,             \* the returned string
    raised,             \* name of the exception that escaped, "" if none
    pc,                 \* position in the transform
    cur_end_time,       \* the local end_time of the chapter loop (lines 207-248)
    ln,                 \* _process_all_subtitles: position of the line loop, 1-based
    current_sentence,   \* _process_all_subtitles: the sentence being accumulated
    seen_sentences,     \* _process_all_subtitles: sentences recorded as seen
    start_processing,   \* _process_all_subtitles: the header has been passed
    seconds,            \* _format_time argument, milliseconds
    time_value,         \* _time_to_seconds argument (time_str)
    parsed,             \* _time_to_seconds result, milliseconds
    tpc,                \* position in the time conversion
    name,               \* rss2md call_tool argument
    arguments,          \* rss2md call_tool argument
    default_timeout,    \* the process-wide default socket timeout, seconds
    original_timeout,   \* rss2md call_tool local (line 151)
    input_data,         \* rss2md call_tool local (line 155)
    feed,               \* what feedparser.parse returns for the url
    fetches,            \* number of calls of feedparser.parse
    rss_result,         \* the JSON text call_tool returns, as a record
    rpc,                \* position in rss2md call_tool
    raw_text,           \* _clean_subtitle_text argument
    cleaned_text,       \* _clean_subtitle_text result
    cpc,                \* position in the cleaning
    tool_name,          \* ytdlp call_tool argument (name)
    tool_arguments,     \* ytdlp call_tool argument (arguments)
    tool_result,        \* the list of text contents ytdlp call_tool returns
    ypc                 \* position in ytdlp call_tool

vars == <<chapters, info, response, cues, vtt_content, selected_chapters, all_chapters, video_duration,
          lines, k, i, chapter_ranges, r, subtitle_segments, seg,
          processed_lines, seen_texts, result, output, raised, pc, cur_end_time,
          ln, current_sentence, seen_sentences, start_processing,
          seconds, time_value, parsed, tpc,
          name, arguments, default_timeout, original_timeout, input_data, feed,
          fetches, rss_result, rpc,
          raw_text, cleaned_text, cpc, tool_name, tool_arguments, tool_result, ypc>>

\* the locals of _process_all_subtitles (processed_lines apart)
flat_vars == <<ln, current_sentence, seen_sentences, start_processing>>

\* the time conversions
time_vars == <<seconds, time_value, parsed, tpc>>

\* the rss2md tool
rss_vars == <<name, arguments, default_timeout, original_timeout, input_data, feed,
              fetches, rss_result, rpc>>

clean_vars == <<raw_text, cleaned_text, cpc>>

tool_vars == <<tool_name, tool_arguments, tool_result, ypc>>

(***************************************************************************)
(* Bounds of the checked inputs.                                           *)
(***************************************************************************)
MaxChapters == 2
MaxAllChapters == 3
\* cues of a caption stream for the dedupe loop, and for the flat transcript
MaxCues == 4
MaxFlatCues == 4
\* pieces of a text to clean
MaxTokens == 3

(***************************************************************************)
(* Units and program constants.                                            *)
(***************************************************************************)
MsPerSecond == 1000
BufferSeconds == 2
\* the decimal digits of the largest integers a float holds (about 1.8e308)
FloatDigits == 309

Min(a, b) == IF a <= b THEN a ELSE b

(***************************************************************************)
(* Python string primitives.                                               *)
(***************************************************************************)
\* s[p], "" outside the string
Char(s, p) == IF 1 <= p /\ p <= Len(s) THEN SubSeq(s, p, p) ELSE ""

Digits == {"0", "1", "2", "3", "4", "5", "6", "7", "8", "9"}

Whitespace == {" ", "\t", "\r"}

\* needle in hay
Contains(hay, needle) ==
    \E p \in 1..(Len(hay) - Len(needle) + 1) :
        SubSeq(hay, p, p + Len(needle) - 1) = needle

\* hay.find(needle) as a 1-based position, 0 when absent
Find(hay, needle) ==
    LET hits == {p \in 1..(Len(hay) - Len(needle) + 1) :
                    SubSeq(hay, p, p + Len(needle) - 1) = needle}
    IN  IF hits = {} THEN 0 ELSE CHOOSE p \in hits : \A q \in hits : p <= q

\* hay.count(c) for a one-character c
Count(hay, c) == Cardinality({p \in 1..Len(hay) : Char(hay, p) = c})

RECURSIVE Split(_, _)
\* s.split(sep)
Split(s, sep) ==
    LET p == Find(s, sep)
    IN  IF p = 0 THEN <<s>>
        ELSE <<SubSeq(s, 1, p - 1)>> \o Split(SubSeq(s, p + Len(sep), Len(s)), sep)

RECURSIVE LStrip(_)
LStrip(s) ==
    IF Len(s) > 0 /\ Char(s, 1) \in Whitespace THEN LStrip(SubSeq(s, 2, Len(s))) ELSE s

RECURSIVE RStrip(_)
RStrip(s) ==
    IF Len(s) > 0 /\ Char(s, Len(s)) \in Whitespace
    THEN RStrip(SubSeq(s, 1, Len(s) - 1)) ELSE s

\* s.strip()
Strip(s) == RStrip(LStrip(s))

\* s.isdigit()
IsDigit(s) == Len(s) > 0 /\ \A p \in 1..Len(s) : Char(s, p) \in Digits

RECURSIVE Join(_, _)
\* sep.join(parts)
Join(parts, sep) ==
    IF Len(parts) = 0 THEN ""
    ELSE IF Len(parts) = 1 THEN parts[1]
    ELSE parts[1] \o sep \o Join(Tail(parts), sep)

DigitValue(c) ==
    CASE c = "0" -> 0 [] c = "1" -> 1 [] c = "2" -> 2 [] c = "3" -> 3
      [] c = "4" -> 4 [] c = "5" -> 5 [] c = "6" -> 6 [] c = "7" -> 7
      [] c = "8" -> 8 [] c = "9" -> 9

RECURSIVE DigitsValue(_)
DigitsValue(s) ==
    IF Len(s) = 0 THEN 0
    ELSE 10 * DigitsValue(SubSeq(s, 1, Len(s) - 1)) + DigitValue(Char(s, Len(s)))

\* int(s) succeeds (no ValueError): decimal digits, surrounding blanks allowed
IntOk(s) == IsDigit(Strip(s))

\* int(s)
IntValue(s) == DigitsValue(Strip(s))

\* float(s) succeeds (no ValueError): digits with an optional fraction
FloatOk(s) ==
    LET parts == Split(Strip(s), ".")
    IN  \/ Len(parts) = 1 /\ IsDigit(parts[1])
        \/ /\ Len(parts) = 2
           /\ parts[1] = "" \/ IsDigit(parts[1])
           /\ parts[2] = "" \/ IsDigit(parts[2])
           /\ parts[1] # "" \/ parts[2] # ""

\* float(s) in milliseconds; the fraction is read to the millisecond
FloatValue(s) ==
    LET parts == Split(Strip(s), ".")
        frac  == IF Len(parts) = 2 THEN SubSeq(parts[2] \o "000", 1, 3) ELSE "000"
    IN  DigitsValue(parts[1]) * MsPerSecond + DigitsValue(frac)

(***************************************************************************)
(* _time_to_seconds (lines 40-66): a number is returned as it is; a string *)
(* is split on ":" and converted; a ValueError gives 0.0.                  *)
(* A value is [kind |-> "num", num |-> ms] or [kind |-> "str", str |-> s]. *)
(***************************************************************************)
RECURSIVE LStripZeros(_)
LStripZeros(s) ==
    IF Len(s) > 1 /\ Char(s, 1) = "0" THEN LStripZeros(SubSeq(s, 2, Len(s))) ELSE s

\* int(s) is beyond the range of a float.  (Exact above FloatDigits digits,
\* where every integer is; the values checked have far fewer or far more.)
IntBeyondFloat(s) == IsDigit(Strip(s)) /\ Len(LStripZeros(Strip(s))) > FloatDigits

TimeStringOk(time_str) ==
    LET parts == Split(time_str, ":")
    IN  CASE Len(parts) = 3 -> IntOk(parts[1]) /\ IntOk(parts[2]) /\ FloatOk(parts[3])
          [] Len(parts) = 2 -> IntOk(parts[1]) /\ FloatOk(parts[2])
          [] OTHER -> FloatOk(time_str)

\* lines 56-60 with hours counted as minutes
TimeStringValueHours60(time_str) ==
    LET parts == Split(time_str, ":")
    IN  CASE Len(parts) = 3 ->
                IntValue(parts[1]) * 60 * MsPerSecond
                + IntValue(parts[2]) * 60 * MsPerSecond + FloatValue(parts[3])
          [] Len(parts) = 2 ->
                IntValue(parts[1]) * 60 * MsPerSecond + FloatValue(parts[2])
          [] OTHER -> FloatValue(time_str)

TimeStringValue(time_str) ==
    LET parts == Split(time_str, ":")
    IN  CASE Len(parts) = 3 ->
                IntValue(parts[1]) * 3600 * MsPerSecond
                + IntValue(parts[2]) * 60 * MsPerSecond + FloatValue(parts[3])
          [] Len(parts) = 2 ->
                IntValue(parts[1]) * 60 * MsPerSecond + FloatValue(parts[2])
          [] OTHER -> FloatValue(time_str)

\* lines 56-60: adding the float of the last part to the integer of the others
\* raises OverflowError when that integer is beyond the range of a float
TimeOverflows(v) ==
    /\ v.kind = "str"
    /\ TimeStringOk(v.str)
    /\ LET parts == Split(v.str, ":")
       IN  \/ Len(parts) = 3 /\ (IntBeyondFloat(parts[1]) \/ IntBeyondFloat(parts[2]))
           \/ Len(parts) = 2 /\ IntBeyondFloat(parts[1])

\* lines 64-66 returning -1 for a string that does not convert
_time_to_seconds_minus_one(v) ==
    IF v.kind = "num" THEN v.num
    ELSE IF TimeStringOk(v.str) THEN TimeStringValue(v.str)
    ELSE 0 - MsPerSecond

_time_to_seconds(v) ==
    IF v.kind = "num" THEN v.num
    ELSE IF TimeStringOk(v.str) THEN TimeStringValue(v.str)
    ELSE 0

(***************************************************************************)
(* _clean_subtitle_text (lines 447-468).                                   *)
(***************************************************************************)
RECURSIVE DigitRun(_, _)
\* length of the run of digits of s that starts at p
DigitRun(s, p) ==
    IF p <= Len(s) /\ Char(s, p) \in Digits THEN 1 + DigitRun(s, p + 1) ELSE 0

\* length of the match of <\d+:\d+:\d+\.\d+> at p, 0 if none
TimestampTagLen(s, p) ==
    LET d1 == DigitRun(s, p + 1)
        p2 == p + 1 + d1
        d2 == DigitRun(s, p2 + 1)
        p3 == p2 + 1 + d2
        d3 == DigitRun(s, p3 + 1)
        p4 == p3 + 1 + d3
        d4 == DigitRun(s, p4 + 1)
        p5 == p4 + 1 + d4
    IN  IF /\ Char(s, p) = "<"
           /\ d1 > 0 /\ Char(s, p2) = ":"
           /\ d2 > 0 /\ Char(s, p3) = ":"
           /\ d3 > 0 /\ Char(s, p4) = "."
           /\ d4 > 0 /\ p5 <= Len(s) /\ Char(s, p5) = ">"
        THEN p5 - p + 1 ELSE 0

\* length of the match of </?c> at p, 0 if none
CTagLen(s, p) ==
    IF SubSeq(s, p, Min(p + 2, Len(s))) = "<c>" THEN 3
    ELSE IF SubSeq(s, p, Min(p + 3, Len(s))) = "</c>" THEN 4
    ELSE 0

RECURSIVE RemoveTimestampTags(_, _)
\* re.sub(r"<\d+:\d+:\d+\.\d+>", "", s), scanning from p
RemoveTimestampTags(s, p) ==
    IF p > Len(s) THEN ""
    ELSE IF TimestampTagLen(s, p) > 0
         THEN RemoveTimestampTags(s, p + TimestampTagLen(s, p))
         ELSE Char(s, p) \o RemoveTimestampTags(s, p + 1)

RECURSIVE RemoveCTags(_, _)
\* re.sub(r"</?c>", "", s), scanning from p
RemoveCTags(s, p) ==
    IF p > Len(s) THEN ""
    ELSE IF CTagLen(s, p) > 0 THEN RemoveCTags(s, p + CTagLen(s, p))
         ELSE Char(s, p) \o RemoveCTags(s, p + 1)

RECURSIVE CollapseWhitespace(_, _)
\* re.sub(r"\s+", " ", s), scanning from p
CollapseWhitespace(s, p) ==
    IF p > Len(s) THEN ""
    ELSE IF Char(s, p) \in Whitespace
         THEN IF p < Len(s) /\ Char(s, p + 1) \in Whitespace
              THEN CollapseWhitespace(s, p + 1)
              ELSE " " \o CollapseWhitespace(s, p + 1)
         ELSE Char(s, p) \o CollapseWhitespace(s, p + 1)

_clean_subtitle_text(text) ==
    Strip(CollapseWhitespace(RemoveCTags(RemoveTimestampTags(text, 1), 1), 1))

(***************************************************************************)
(* _extract_subtitles_for_timerange, first half (lines 360-413): the       *)
(* segments of the cues that start inside [start_seconds, end_seconds).    *)
(***************************************************************************)
\* lines 375-382: the start time of a timing line parses (no ValueError)
CueTimeOk(time_str) ==
    LET parts == Split(time_str, ":")
    IN  IF Count(time_str, ":") = 2
        THEN IntOk(parts[1]) /\ IntOk(parts[2]) /\ FloatOk(parts[3])
        ELSE Len(parts) = 2 /\ IntOk(parts[1]) /\ FloatOk(parts[2])

\* lines 377-382: current_time
CueTime(time_str) ==
    LET parts == Split(time_str, ":")
    IN  IF Count(time_str, ":") = 2
        THEN IntValue(parts[1]) * 3600 * MsPerSecond
             + IntValue(parts[2]) * 60 * MsPerSecond + FloatValue(parts[3])
        ELSE IntValue(parts[1]) * 60 * MsPerSecond + FloatValue(parts[2])

RECURSIVE CueText(_, _, _)
\* lines 390-406: the text lines from line j on, cleaned and joined by " "
CueText(ls, j, text) ==
    IF j <= Len(ls) /\ ~Contains(ls[j], "-->") /\ Strip(ls[j]) # ""
    THEN IF ~IsDigit(Strip(ls[j])) /\ _clean_subtitle_text(Strip(ls[j])) # ""
         THEN CueText(ls, j + 1,
                      IF text # "" THEN text \o " " \o _clean_subtitle_text(Strip(ls[j]))
                      ELSE _clean_subtitle_text(Strip(ls[j])))
         ELSE CueText(ls, j + 1, text)
    ELSE text

\* line 385 with the end included
InTimerangeClosed(current_time, start_seconds, end_seconds) ==
    start_seconds <= current_time /\ current_time <= end_seconds

\* line 385: the cue falls within the range
InTimerange(current_time, start_seconds, end_seconds) ==
    start_seconds <= current_time /\ current_time < end_seconds

\* lines 369-412 with a start that does not parse leaving current_time at 0,
\* its value of line 362
SegmentOfLineZero(ls, n, start_seconds, end_seconds) ==
    LET time_str == Strip(Split(ls[n], "-->")[1])
        current_time == IF CueTimeOk(time_str) THEN CueTime(time_str) ELSE 0
    IN  IF /\ Contains(ls[n], "-->")
           /\ InTimerange(current_time, start_seconds, end_seconds)
           /\ CueText(ls, n + 1, "") # ""
        THEN <<[time |-> current_time, text |-> CueText(ls, n + 1, "")]>>
        ELSE <<>>

\* lines 369-412 for line n: the segment it contributes, if any
SegmentOfLine(ls, n, start_seconds, end_seconds) ==
    LET time_str == Strip(Split(ls[n], "-->")[1])
    IN  IF /\ Contains(ls[n], "-->")
           /\ CueTimeOk(time_str)
           /\ InTimerange(CueTime(time_str), start_seconds, end_seconds)
           /\ CueText(ls, n + 1, "") # ""
        THEN <<[time |-> CueTime(time_str), text |-> CueText(ls, n + 1, "")]>>
        ELSE <<>>

RECURSIVE CollectSegments(_, _, _, _)
\* lines 365-413 from line n on
CollectSegments(ls, n, start_seconds, end_seconds) ==
    IF n > Len(ls) THEN <<>>
    ELSE SegmentOfLine(ls, n, start_seconds, end_seconds)
         \o CollectSegments(ls, n + 1, start_seconds, end_seconds)

RECURSIVE InsertByTime(_, _)
InsertByTime(sorted, s) ==
    IF Len(sorted) = 0 THEN <<s>>
    ELSE IF sorted[Len(sorted)].time <= s.time THEN Append(sorted, s)
    ELSE Append(InsertByTime(SubSeq(sorted, 1, Len(sorted) - 1), s), sorted[Len(sorted)])

RECURSIVE SortByTime(_)
\* line 420: subtitle_segments.sort(key=time), a stable sort
SortByTime(segs) ==
    IF Len(segs) = 0 THEN <<>>
    ELSE InsertByTime(SortByTime(SubSeq(segs, 1, Len(segs) - 1)), segs[Len(segs)])

(***************************************************************************)
(* _extract_subtitles_for_timerange, second half (lines 423-443): one pass *)
(* of the dedupe loop for one segment text.                                *)
(***************************************************************************)
\* lines 435-439 appending instead of replacing the last line
DedupeStepAppend(pl, seen, text) ==
    IF text \in seen
    THEN [processed_lines |-> pl, seen_texts |-> seen]
    ELSE IF Len(pl) > 0 /\ Contains(pl[Len(pl)], text)
    THEN [processed_lines |-> pl, seen_texts |-> seen]
    ELSE [processed_lines |-> Append(pl, text), seen_texts |-> seen \cup {text}]

\* lines 423-443 without the test of line 426
DedupeStepNoSeen(pl, seen, text) ==
    IF Len(pl) > 0 /\ Contains(pl[Len(pl)], text)
    THEN [processed_lines |-> pl, seen_texts |-> seen]
    ELSE IF Len(pl) > 0 /\ Contains(text, pl[Len(pl)])
    THEN [processed_lines |-> [pl EXCEPT ![Len(pl)] = text],
          seen_texts |-> seen \cup {text}]
    ELSE [processed_lines |-> Append(pl, text), seen_texts |-> seen \cup {text}]

\* lines 423-443 recording as seen the text that line 430 skips
DedupeStepSeenSkipped(pl, seen, text) ==
    IF text \in seen
    THEN [processed_lines |-> pl, seen_texts |-> seen]
    ELSE IF Len(pl) > 0 /\ Contains(pl[Len(pl)], text)
    THEN [processed_lines |-> pl, seen_texts |-> seen \cup {text}]
    ELSE IF Len(pl) > 0 /\ Contains(text, pl[Len(pl)])
    THEN [processed_lines |-> [pl EXCEPT ![Len(pl)] = text],
          seen_texts |-> seen \cup {text}]
    ELSE [processed_lines |-> Append(pl, text), seen_texts |-> seen \cup {text}]

\* lines 423-443 without the test of line 430
DedupeStepNoSubstring(pl, seen, text) ==
    IF text \in seen
    THEN [processed_lines |-> pl, seen_texts |-> seen]
    ELSE IF Len(pl) > 0 /\ Contains(text, pl[Len(pl)])
    THEN [processed_lines |-> [pl EXCEPT ![Len(pl)] = text],
          seen_texts |-> seen \cup {text}]
    ELSE [processed_lines |-> Append(pl, text), seen_texts |-> seen \cup {text}]

\* lines 423-443 replacing the last line whatever it is
DedupeStepReplaceAlways(pl, seen, text) ==
    IF text \in seen
    THEN [processed_lines |-> pl, seen_texts |-> seen]
    ELSE IF Len(pl) > 0 /\ Contains(pl[Len(pl)], text)
    THEN [processed_lines |-> pl, seen_texts |-> seen]
    ELSE IF Len(pl) > 0
    THEN [processed_lines |-> [pl EXCEPT ![Len(pl)] = text],
          seen_texts |-> seen \cup {text}]
    ELSE [processed_lines |-> Append(pl, text), seen_texts |-> seen \cup {text}]

\* lines 423-443, one segment text
DedupeStep(pl, seen, text) ==
    IF text \in seen
    THEN [processed_lines |-> pl, seen_texts |-> seen]
    ELSE IF Len(pl) > 0 /\ Contains(pl[Len(pl)], text)
    THEN [processed_lines |-> pl, seen_texts |-> seen]
    ELSE IF Len(pl) > 0 /\ Contains(text, pl[Len(pl)])
    THEN [processed_lines |-> [pl EXCEPT ![Len(pl)] = text],
          seen_texts |-> seen \cup {text}]
    ELSE [processed_lines |-> Append(pl, text), seen_texts |-> seen \cup {text}]

RECURSIVE DedupeFrom(_, _, _, _)
\* lines 423-443 from segment n on: the emitted lines
DedupeFrom(segs, n, pl, seen) ==
    IF n > Len(segs) THEN pl
    ELSE DedupeFrom(segs, n + 1,
                    DedupeStep(pl, seen, Strip(segs[n].text)).processed_lines,
                    DedupeStep(pl, seen, Strip(segs[n].text)).seen_texts)

\* the whole function (lines 342-445): the body of a time range
_extract_subtitles_for_timerange(ls, start_seconds, end_seconds) ==
    Join(DedupeFrom(SortByTime(CollectSegments(ls, 1, start_seconds, end_seconds)),
                    1, <<>>, {}),
         "\n")

(***************************************************************************)
(* _process_vtt_content, chapter ranges (lines 196-252).                   *)
(* A chapter is a record with start_time and title, and end_time when the  *)
(* dict has that key.  The local i is [bound |-> FALSE] until the loop of  *)
(* line 217 binds it; it keeps its value from one chapter to the next.     *)
(***************************************************************************)
RECURSIVE InsertByStartStrict(_, _)
\* an insertion that puts a chapter before those with the same start_time
InsertByStartStrict(sorted, c) ==
    IF Len(sorted) = 0 THEN <<c>>
    ELSE IF sorted[Len(sorted)].start_time < c.start_time THEN Append(sorted, c)
    ELSE Append(InsertByStartStrict(SubSeq(sorted, 1, Len(sorted) - 1), c),
                sorted[Len(sorted)])

RECURSIVE InsertByStart(_, _)
InsertByStart(sorted, c) ==
    IF Len(sorted) = 0 THEN <<c>>
    ELSE IF sorted[Len(sorted)].start_time <= c.start_time THEN Append(sorted, c)
    ELSE Append(InsertByStart(SubSeq(sorted, 1, Len(sorted) - 1), c),
                sorted[Len(sorted)])

RECURSIVE SortChapters(_)
\* lines 200-202: sorted(selected_chapters, key=start_time), a stable sort
SortChapters(chs) ==
    IF Len(chs) = 0 THEN <<>>
    ELSE InsertByStart(SortChapters(SubSeq(chs, 1, Len(chs) - 1)), chs[Len(chs)])

HasEnd(chapter) == "end_time" \in DOMAIN chapter

\* lines 217-221: 0-based index of the first entry of all_chapters with the
\* chapter's start_time and title, -1 if there is none
MatchIndex(allc, chapter) ==
    LET hits == {n \in 1..Len(allc) :
                    /\ allc[n].start_time = chapter.start_time
                    /\ allc[n].title = chapter.title}
    IN  IF hits = {} THEN -1
        ELSE (CHOOSE n \in hits : \A m \in hits : n <= m) - 1

\* lines 215-228 run for this chapter
SearchesAll(allc, chapter) == ~HasEnd(chapter) /\ Len(allc) > 0

\* lines 222-227 taking the start of the matched entry itself
EndFromAllSame(allc, m, duration) ==
    IF m = Len(allc) - 1 THEN duration ELSE allc[m + 1].start_time

\* lines 222-227: the end taken from the matched entry at 0-based index m
EndFromAll(allc, m, duration) ==
    IF m = Len(allc) - 1 THEN duration ELSE allc[m + 2].start_time

\* lines 233-237 with >= for >: the chapter counts as its own successor
EndFromSelectedGe(selected, chapter, duration) ==
    LET later == {n \in 1..Len(selected) :
                     selected[n].start_time >= chapter.start_time}
    IN  IF later # {}
        THEN CHOOSE e \in {selected[n].start_time : n \in later} :
                 \A n \in later : e <= selected[n].start_time
        ELSE duration

\* lines 231-243 without lines 233-241: the duration always
EndFromSelectedDuration(selected, chapter, duration) == duration

\* lines 231-243: the next later start among the selected chapters, or the
\* duration
EndFromSelected(selected, chapter, duration) ==
    LET later == {n \in 1..Len(selected) :
                     selected[n].start_time > chapter.start_time}
    IN  IF later # {}
        THEN CHOOSE e \in {selected[n].start_time : n \in later} :
                 \A n \in later : e <= selected[n].start_time
        ELSE duration

\* lines 209-243: end_time before the buffer
BaseEnd(chapter, selected, allc, duration) ==
    IF HasEnd(chapter) THEN chapter.end_time
    ELSE IF SearchesAll(allc, chapter) /\ MatchIndex(allc, chapter) >= 0
    THEN EndFromAll(allc, MatchIndex(allc, chapter), duration)
    ELSE EndFromSelected(selected, chapter, duration)

\* the value of i when line 246 is reached
LoopIndex(chapter, allc, prev) ==
    IF SearchesAll(allc, chapter)
    THEN [bound |-> TRUE,
          val |-> IF MatchIndex(allc, chapter) >= 0
                  THEN MatchIndex(allc, chapter) ELSE Len(allc) - 1]
    ELSE prev

\* line 246: is_last_chapter = i == len(selected_chapters) - 1
IsLastChapter(idx, selected) == idx.val = Len(selected) - 1

\* lines 247-248 with the buffer added at both ends of the range
BufferedEndTwice(end_time, is_last_chapter, duration) ==
    IF ~is_last_chapter /\ end_time < duration
    THEN end_time + 2 * BufferSeconds * MsPerSecond
    ELSE end_time

\* lines 247-248 with <= for <
BufferedEndLe(end_time, is_last_chapter, duration) ==
    IF ~is_last_chapter /\ end_time <= duration
    THEN end_time + BufferSeconds * MsPerSecond
    ELSE end_time

\* lines 247-248
BufferedEnd(end_time, is_last_chapter, duration) ==
    IF ~is_last_chapter /\ end_time < duration
    THEN end_time + BufferSeconds * MsPerSecond
    ELSE end_time

\* lines 250-252
ChapterRange(chapter, end) ==
    [start |-> chapter.start_time, end |-> end, title |-> chapter.title]

(***************************************************************************)
(* The inputs that are checked.                                            *)
(***************************************************************************)
\* None, where the code holds a time or a timeout
None == -1

DigitChar(d) == Char("0123456789", d + 1)

\* n in decimal, two resp. three digits
Pad2(n) == DigitChar((n \div 10) % 10) \o DigitChar(n % 10)
Pad3(n) == DigitChar((n \div 100) % 10) \o Pad2(n % 100)

\* a cue timestamp HH:MM:SS.mmm
Timestamp(ms) ==
    Pad2(ms \div (3600 * MsPerSecond)) \o ":"
    \o Pad2((ms \div (60 * MsPerSecond)) % 60) \o ":"
    \o Pad2((ms \div MsPerSecond) % 60) \o "." \o Pad3(ms % MsPerSecond)

\* the start of a cue as its timing line shows it
CueStamp(c) == IF "stamp" \in DOMAIN c THEN c.stamp ELSE Timestamp(c.time)

RECURSIVE CueBlocks(_, _)
CueBlocks(cs, n) ==
    IF n > Len(cs) THEN ""
    ELSE "\n" \o Pad2(n) \o "\n"
         \o CueStamp(cs[n]) \o " --> " \o Timestamp(cs[n].time + MsPerSecond)
         \o "\n" \o cs[n].text \o "\n" \o CueBlocks(cs, n + 1)

\* the caption track of a cue list: header, then per cue a blank line, an
\* index line, a timing line and the text lines
RenderVtt(cs) == "WEBVTT\n" \o CueBlocks(cs, 1)

Cue(ms, text) == [time |-> ms, text |-> text]

\* a cue whose timing line starts with a time that does not parse
BadCue(stamp, text) == [time |-> None, text |-> text, stamp |-> stamp]

CueLists ==
    { <<Cue(0, "Hello"), Cue(1000, "Hello world"), Cue(2500, "Hello world."),
        Cue(10000, "Goodbye.")>>,
      <<Cue(5000, "AI<00:00:05.279><c> cod</c>"), BadCue("7.000", "Noise."),
        Cue(7000, "AI coding\nis fun.")>>,
      <<Cue(0, "<c> </c>"), Cue(5000, "One."), Cue(12000, "Two."),
        Cue(6000, "One."), BadCue("00:0x:07.000", "Lost."), Cue(3000, "Zero."),
        Cue(8000, "42")>> }

Marker(ms, title) == [start_time |-> ms, title |-> title]
MarkerTo(ms, title, end) == [start_time |-> ms, title |-> title, end_time |-> end]

Markers ==
    { Marker(0, "Intro"), MarkerTo(0, "Intro", 5000), Marker(5000, "Outro"),
      MarkerTo(5000, "Outro", 11000), Marker(10000, "End") }

\* the chapters of the video, in order
VideoChapter(n) ==
    Marker((n - 1) * 5000,
           CASE n = 1 -> "Intro" [] n = 2 -> "Outro" [] n = 3 -> "End"
             [] OTHER -> "Credits")

Durations == {0, 12000}

Unbound == [bound |-> FALSE, val |-> 0]


NoInfo == [chapters |-> <<>>, duration |-> 0, title |-> "", subtitles |-> FALSE]

NoResponse == [success |-> FALSE, content |-> "", error |-> ""]

\* the state of the transform before its first line
Fresh ==
    /\ lines = <<>>
    /\ k = 1
    /\ i = Unbound
    /\ chapter_ranges = <<>>
    /\ r = 1
    /\ subtitle_segments = <<>>
    /\ seg = 1
    /\ processed_lines = <<>>
    /\ seen_texts = {}
    /\ result = <<>>
    /\ output = ""
    /\ raised = ""
    /\ cur_end_time = None
    /\ ln = 1
    /\ current_sentence = ""
    /\ seen_sentences = {}
    /\ start_processing = FALSE

\* no time conversion is under way
TimeIdle ==
    /\ seconds = None
    /\ time_value = [kind |-> "num", num |-> 0]
    /\ parsed = None
    /\ tpc = "idle"

\* no call of _clean_subtitle_text is under way
CleanIdle ==
    /\ raw_text = ""
    /\ cleaned_text = ""
    /\ cpc = "idle"

\* no call of the ytdlp tools is under way
ToolIdle ==
    /\ tool_name = ""
    /\ tool_arguments = <<>>
    /\ tool_result = <<>>
    /\ ypc = "idle"

\* no call of the rss2md tool is under way
RssIdle ==
    /\ name = ""
    /\ arguments = <<>>
    /\ default_timeout = None
    /\ original_timeout = None
    /\ input_data = <<>>
    /\ feed = <<>>
    /\ fetches = 0
    /\ rss_result = <<>>
    /\ rpc = "idle"

\* a call of _process_vtt_content with arguments of the caller's choice
Init ==
    /\ chapters = <<>>
    /\ info = NoInfo
    /\ response = NoResponse
    /\ cues \in CueLists \cup {<<>>}
    /\ vtt_content = IF cues = <<>> THEN "" ELSE RenderVtt(cues)
    /\ \E n \in 0..MaxChapters : selected_chapters \in [1..n -> Markers]
    /\ \E n \in 0..MaxAllChapters : all_chapters = [m \in 1..n |-> VideoChapter(m)]
    /\ video_duration \in Durations
    /\ Fresh
    /\ pc = "start"
    /\ TimeIdle
    /\ RssIdle
    /\ CleanIdle
    /\ ToolIdle

(***************************************************************************)
(* _process_vtt_content, step by step.                                     *)
(***************************************************************************)
\* lines 190-202
Start ==
    /\ pc = "start"
    /\ Len(selected_chapters) > 0
    /\ lines' = Split(vtt_content, "\n")
    /\ selected_chapters' = SortChapters(selected_chapters)
    /\ k' = 1
    /\ pc' = "resolve"
    /\ UNCHANGED <<chapters, info, response, cues, vtt_content, all_chapters, video_duration, i,
                   chapter_ranges, r, subtitle_segments, seg, processed_lines,
                   seen_texts, result, output, raised>>
    /\ UNCHANGED <<cur_end_time, flat_vars, time_vars, rss_vars, clean_vars, tool_vars>>

\* lines 204-243, one chapter: its end before the buffer, and what the loop
\* of line 217 leaves in i
InferEnd ==
    /\ pc = "resolve"
    /\ k <= Len(selected_chapters)
    /\ cur_end_time' = BaseEnd(selected_chapters[k], selected_chapters, all_chapters,
                           video_duration)
    /\ i' = LoopIndex(selected_chapters[k], all_chapters, i)
    /\ pc' = "buffer"
    /\ UNCHANGED <<chapters, info, response, cues, vtt_content, selected_chapters, all_chapters,
                   video_duration, lines, k, chapter_ranges, r, subtitle_segments,
                   seg, processed_lines, seen_texts, result, output, raised>>
    /\ UNCHANGED <<flat_vars, time_vars, rss_vars, clean_vars, tool_vars>>

\* lines 245-252 for that chapter; reading an unbound i at line 246 raises
AppendRange ==
    /\ pc = "buffer"
    /\ IF ~i.bound
       THEN /\ raised' = "UnboundLocalError"
            /\ pc' = "raised"
            /\ UNCHANGED <<chapter_ranges, k, cur_end_time>>
       ELSE /\ cur_end_time' = BufferedEnd(cur_end_time, IsLastChapter(i, selected_chapters),
                                       video_duration)
            /\ chapter_ranges' =
                   Append(chapter_ranges, ChapterRange(selected_chapters[k], cur_end_time'))
            /\ k' = k + 1
            /\ pc' = IF k = Len(selected_chapters) THEN "extract" ELSE "resolve"
            /\ UNCHANGED raised
    /\ UNCHANGED <<chapters, info, response, cues, vtt_content, selected_chapters, all_chapters,
                   video_duration, lines, i, r, subtitle_segments, seg,
                   processed_lines, seen_texts, result, output>>
    /\ UNCHANGED <<flat_vars, time_vars, rss_vars, clean_vars, tool_vars>>

\* lines 256-258 and 356-420 with seen_texts kept from the range before
BeginRangeKeepSeen ==
    /\ pc = "extract"
    /\ r <= Len(chapter_ranges)
    /\ subtitle_segments' =
           SortByTime(CollectSegments(lines, 1, chapter_ranges[r].start,
                                      chapter_ranges[r].end))
    /\ processed_lines' = <<>>
    /\ seg' = 1
    /\ pc' = "dedupe"
    /\ UNCHANGED <<chapters, info, response, cues, vtt_content, selected_chapters, all_chapters,
                   video_duration, lines, k, i, chapter_ranges, r, result,
                   output, raised, seen_texts>>
    /\ UNCHANGED <<cur_end_time, flat_vars, time_vars, rss_vars, clean_vars, tool_vars>>

\* lines 256-258 and 356-420: the segments of the next range, sorted
BeginRange ==
    /\ pc = "extract"
    /\ r <= Len(chapter_ranges)
    /\ subtitle_segments' =
           SortByTime(CollectSegments(lines, 1, chapter_ranges[r].start,
                                      chapter_ranges[r].end))
    /\ processed_lines' = <<>>
    /\ seen_texts' = {}
    /\ seg' = 1
    /\ pc' = "dedupe"
    /\ UNCHANGED <<chapters, info, response, cues, vtt_content, selected_chapters, all_chapters,
                   video_duration, lines, k, i, chapter_ranges, r, result,
                   output, raised>>
    /\ UNCHANGED <<cur_end_time, flat_vars, time_vars, rss_vars, clean_vars, tool_vars>>

\* lines 423-443, one segment
Dedupe ==
    /\ pc = "dedupe"
    /\ seg <= Len(subtitle_segments)
    /\ LET step == DedupeStep(processed_lines, seen_texts,
                              Strip(subtitle_segments[seg].text))
       IN  /\ processed_lines' = step.processed_lines
           /\ seen_texts' = step.seen_texts
    /\ seg' = seg + 1
    /\ UNCHANGED <<chapters, info, response, cues, vtt_content, selected_chapters, all_chapters,
                   video_duration, lines, k, i, chapter_ranges, r,
                   subtitle_segments, result, output, raised, pc>>
    /\ UNCHANGED <<cur_end_time, flat_vars, time_vars, rss_vars, clean_vars, tool_vars>>

\* lines 260-262 without the test of line 260
SectionAlways(res, title, chapter_subs) ==
    res \o <<"## " \o title, chapter_subs>>

\* lines 260-262: the heading and the body of a range, nothing for an empty body
Section(res, title, chapter_subs) ==
    IF chapter_subs # "" THEN res \o <<"## " \o title, chapter_subs>> ELSE res

\* line 445 and lines 260-262
EndRange ==
    /\ pc = "dedupe"
    /\ seg > Len(subtitle_segments)
    /\ result' = Section(result, chapter_ranges[r].title, Join(processed_lines, "\n"))
    /\ r' = r + 1
    /\ pc' = "extract"
    /\ UNCHANGED <<chapters, info, response, cues, vtt_content, selected_chapters, all_chapters,
                   video_duration, lines, k, i, chapter_ranges,
                   subtitle_segments, seg, processed_lines, seen_texts, output,
                   raised>>
    /\ UNCHANGED <<cur_end_time, flat_vars, time_vars, rss_vars, clean_vars, tool_vars>>

\* line 264 joining with one newline
TranscriptNewline(res) == Join(res, "\n")

\* line 264
Transcript(res) == Join(res, "\n\n")

RECURSIVE SectionsFrom(_, _, _, _)
\* lines 256-262 from the n-th range on
SectionsFrom(ls, ranges, n, res) ==
    IF n > Len(ranges) THEN res
    ELSE SectionsFrom(ls, ranges, n + 1,
                      Section(res, ranges[n].title,
                              _extract_subtitles_for_timerange(ls, ranges[n].start,
                                                               ranges[n].end)))

\* lines 254-264: the transcript of the ranges
ChapteredTranscript(ls, ranges) == Transcript(SectionsFrom(ls, ranges, 1, <<>>))

Return ==
    /\ pc = "extract"
    /\ r > Len(chapter_ranges)
    /\ output' = Transcript(result)
    /\ pc' = "done"
    /\ UNCHANGED <<chapters, info, response, cues, vtt_content, selected_chapters, all_chapters,
                   video_duration, lines, k, i, chapter_ranges, r,
                   subtitle_segments, seg, processed_lines, seen_texts, result,
                   raised>>
    /\ UNCHANGED <<cur_end_time, flat_vars, time_vars, rss_vars, clean_vars, tool_vars>>

(***************************************************************************)
(* _process_all_subtitles (lines 266-340): the transcript without          *)
(* chapters.                                                               *)
(***************************************************************************)
\* str.startswith
StartsWith(s, prefix) ==
    Len(prefix) <= Len(s) /\ SubSeq(s, 1, Len(prefix)) = prefix

\* line 304: cleaned_line.endswith((".", "!", "?"))
EndsSentence(s) == Char(s, Len(s)) \in {".", "!", "?"}

\* lines 308-315: a completed sentence, appended if it was not seen before
CompleteSentence(st, full_sentence) ==
    IF full_sentence \notin st.seen_sentences
    THEN [st EXCEPT !.seen_sentences = @ \cup {full_sentence},
                    !.processed_lines = Append(@, full_sentence),
                    !.current_sentence = ""]
    ELSE [st EXCEPT !.current_sentence = ""]

\* lines 300-321 without the test of lines 296-297
AccumulateTextAlways(st, cleaned_line) ==
    IF EndsSentence(cleaned_line)
    THEN CompleteSentence(st, IF st.current_sentence # ""
                              THEN Strip(st.current_sentence \o " " \o cleaned_line)
                              ELSE cleaned_line)
    ELSE [st EXCEPT !.current_sentence =
                        IF @ # "" THEN @ \o " " \o cleaned_line ELSE cleaned_line]

\* lines 294-321: a cleaned, non-empty line of text
AccumulateText(st, cleaned_line) ==
    IF /\ Len(st.processed_lines) > 0
       /\ Contains(st.processed_lines[Len(st.processed_lines)], cleaned_line)
    THEN st
    ELSE IF EndsSentence(cleaned_line)
    THEN CompleteSentence(st, IF st.current_sentence # ""
                              THEN Strip(st.current_sentence \o " " \o cleaned_line)
                              ELSE cleaned_line)
    ELSE [st EXCEPT !.current_sentence =
                        IF @ # "" THEN @ \o " " \o cleaned_line ELSE cleaned_line]

\* lines 275-321 for one line; st holds the locals processed_lines,
\* seen_sentences, current_sentence and start_processing
FlatLineStep(st, line) ==
    IF Strip(line) = "" THEN st
    ELSE IF ~st.start_processing /\ StartsWith(line, "WEBVTT") THEN st
    ELSE LET started == [st EXCEPT !.start_processing = TRUE]
         IN  IF Contains(line, "-->") THEN started
             ELSE IF IsDigit(Strip(line)) THEN started
             ELSE IF _clean_subtitle_text(Strip(line)) = "" THEN started
             ELSE AccumulateText(started, _clean_subtitle_text(Strip(line)))

\* lines 323-326: the text left in the accumulator
RemainingText(pl, seen, current) ==
    IF current # "" /\ current \notin seen THEN Append(pl, current) ELSE pl

\* lines 329-338 keeping every line
FinalLinesAll(pl, n) == SubSeq(pl, n, Len(pl))

RECURSIVE FinalLines(_, _)
\* lines 329-338: from the n-th on, the lines that no other line contains
FinalLines(pl, n) ==
    IF n > Len(pl) THEN <<>>
    ELSE (IF \E j \in 1..Len(pl) : j # n /\ Contains(pl[j], pl[n])
          THEN <<>> ELSE <<pl[n]>>)
         \o FinalLines(pl, n + 1)

RECURSIVE FlatFrom(_, _, _)
\* lines 275-321 from line n on
FlatFrom(ls, n, st) ==
    IF n > Len(ls) THEN st ELSE FlatFrom(ls, n + 1, FlatLineStep(st, ls[n]))

\* the whole function (lines 266-340)
_process_all_subtitles(ls) ==
    LET st == FlatFrom(ls, 1, [processed_lines |-> <<>>, seen_sentences |-> {},
                               current_sentence |-> "", start_processing |-> FALSE])
    IN  Join(FinalLines(RemainingText(st.processed_lines, st.seen_sentences,
                                      st.current_sentence), 1),
             "\n")

\* lines 190-194 without chapters, and lines 268-273
StartFlat ==
    /\ pc = "start"
    /\ Len(selected_chapters) = 0
    /\ lines' = Split(vtt_content, "\n")
    /\ processed_lines' = <<>>
    /\ seen_sentences' = {}
    /\ current_sentence' = ""
    /\ start_processing' = FALSE
    /\ ln' = 1
    /\ pc' = "flat"
    /\ UNCHANGED <<chapters, info, response, cues, vtt_content, selected_chapters, all_chapters,
                   video_duration, k, i, chapter_ranges, r, subtitle_segments,
                   seg, seen_texts, result, output, raised, cur_end_time>>
    /\ UNCHANGED <<time_vars, rss_vars, clean_vars, tool_vars>>

\* lines 275-321, one line
FlatLine ==
    /\ pc = "flat"
    /\ ln <= Len(lines)
    /\ LET st == FlatLineStep([processed_lines |-> processed_lines,
                               seen_sentences |-> seen_sentences,
                               current_sentence |-> current_sentence,
                               start_processing |-> start_processing],
                              lines[ln])
       IN  /\ processed_lines' = st.processed_lines
           /\ seen_sentences' = st.seen_sentences
           /\ current_sentence' = st.current_sentence
           /\ start_processing' = st.start_processing
    /\ ln' = ln + 1
    /\ UNCHANGED <<chapters, info, response, cues, vtt_content, selected_chapters, all_chapters,
                   video_duration, lines, k, i, chapter_ranges, r,
                   subtitle_segments, seg, seen_texts, result, output, raised, pc,
                   cur_end_time>>
    /\ UNCHANGED <<time_vars, rss_vars, clean_vars, tool_vars>>

\* lines 323-340
FlatFinish ==
    /\ pc = "flat"
    /\ ln > Len(lines)
    /\ processed_lines' = RemainingText(processed_lines, seen_sentences, current_sentence)
    /\ seen_sentences' = IF current_sentence # ""
                         THEN seen_sentences \cup {current_sentence}
                         ELSE seen_sentences
    /\ output' = Join(FinalLines(processed_lines', 1), "\n")
    /\ pc' = "done"
    /\ UNCHANGED <<chapters, info, response, cues, vtt_content, selected_chapters, all_chapters,
                   video_duration, lines, k, i, chapter_ranges, r,
                   subtitle_segments, seg, seen_texts, result, raised, cur_end_time,
                   ln, current_sentence, start_processing>>
    /\ UNCHANGED <<time_vars, rss_vars, clean_vars, tool_vars>>

Next ==
    \/ Start \/ InferEnd \/ AppendRange \/ BeginRange \/ Dedupe \/ EndRange \/ Return
    \/ StartFlat \/ FlatLine \/ FlatFinish

Spec == Init /\ [][Next]_vars

TypeOK ==
    /\ pc \in {"convert", "fetch", "start", "resolve", "buffer", "extract",
              "dedupe", "flat", "done", "raised", "returned", "idle"}
    /\ raised \in {"", "UnboundLocalError", "OverflowError"}

(***************************************************************************)
(* extract_subtitles (lines 85-169).  A start_time or end_time the caller  *)
(* passes is [kind |-> "num", num |-> ms] or [kind |-> "str", str |-> s].  *)
(* The download by yt-dlp is outside the program: info holds what it       *)
(* returned, the caption file it wrote (or not) included.                  *)
(***************************************************************************)
Num(ms) == [kind |-> "num", num |-> ms]
Str(s) == [kind |-> "str", str |-> s]

\* lines 88-98 for one chapter
ConvertChapter(chapter) ==
    IF HasEnd(chapter)
    THEN MarkerTo(_time_to_seconds(chapter.start_time), chapter.title,
                  _time_to_seconds(chapter.end_time))
    ELSE Marker(_time_to_seconds(chapter.start_time), chapter.title)

\* lines 121-123: no chapter has a true end_time
NoEndTimes(chs) ==
    \A n \in 1..Len(chs) : ~(HasEnd(chs[n]) /\ chs[n].end_time # 0)

\* the title of the chapter line 132 makes of the whole video
WholeVideoTitle(inf) == IF "title" \in DOMAIN inf THEN inf.title ELSE "Full Video"

\* lines 120-140 without the test of chapters at line 121
AllChaptersOfAlways(chs, inf) ==
    IF NoEndTimes(chs)
    THEN SortChapters(IF Len(inf.chapters) = 0 /\ inf.duration # 0
                      THEN <<MarkerTo(0, WholeVideoTitle(inf), inf.duration)>>
                      ELSE inf.chapters)
    ELSE <<>>

\* lines 120-140
AllChaptersOf(chs, inf) ==
    IF Len(chs) > 0 /\ NoEndTimes(chs)
    THEN SortChapters(IF Len(inf.chapters) = 0 /\ inf.duration # 0
                      THEN <<MarkerTo(0, WholeVideoTitle(inf), inf.duration)>>
                      ELSE inf.chapters)
    ELSE <<>>

RawMarkers ==
    { Marker(Str("0:00"), "Intro"), Marker(Str("abc"), "Intro"),
      Marker(Num(5000), "Outro"), MarkerTo(Str("0:05"), "Outro", Str("0:1x")),
      MarkerTo(Str("00:00:10.5"), "End", Str("12")), Marker(Str("5"), "Break") }

Infos ==
    LET chapterLists == {<<>>, [m \in 1..MaxAllChapters |-> VideoChapter(m)]}
    IN  { [chapters |-> chs, duration |-> d, title |-> "Talk", subtitles |-> b] :
            chs \in chapterLists, d \in Durations, b \in BOOLEAN }
        \cup { [chapters |-> chs, duration |-> d, subtitles |-> b] :
                  chs \in chapterLists, d \in Durations, b \in BOOLEAN }

\* a call of extract_subtitles
InitExtract ==
    /\ \E n \in 0..MaxChapters : chapters \in [1..n -> RawMarkers]
    /\ info \in Infos
    /\ response = NoResponse
    /\ cues \in CueLists
    /\ vtt_content = ""
    /\ selected_chapters = <<>>
    /\ all_chapters = <<>>
    /\ video_duration = 0
    /\ Fresh
    /\ pc = "convert"
    /\ TimeIdle
    /\ RssIdle
    /\ CleanIdle
    /\ ToolIdle

\* lines 86-98; an OverflowError of _time_to_seconds is raised on (line 168)
ConvertChapters ==
    /\ pc = "convert"
    /\ IF \E n \in 1..Len(chapters) :
              \/ TimeOverflows(chapters[n].start_time)
              \/ HasEnd(chapters[n]) /\ TimeOverflows(chapters[n].end_time)
       THEN /\ raised' = "OverflowError"
            /\ pc' = "raised"
            /\ UNCHANGED selected_chapters
       ELSE /\ selected_chapters' =
                   [n \in 1..Len(chapters) |-> ConvertChapter(chapters[n])]
            /\ pc' = "fetch"
            /\ UNCHANGED raised
    /\ UNCHANGED <<chapters, info, response, cues, vtt_content, all_chapters,
                   video_duration, lines, k, i, chapter_ranges, r,
                   subtitle_segments, seg, processed_lines, seen_texts, result,
                   output>>
    /\ UNCHANGED <<cur_end_time, flat_vars, time_vars, rss_vars, clean_vars, tool_vars>>

\* lines 100-166 up to the call of _process_vtt_content
FetchSubtitles ==
    /\ pc = "fetch"
    /\ all_chapters' = AllChaptersOf(selected_chapters, info)
    /\ IF info.subtitles
       THEN /\ vtt_content' = RenderVtt(cues)
            /\ video_duration' = info.duration
            /\ pc' = "start"
            /\ UNCHANGED response
       ELSE /\ response' = [success |-> FALSE, content |-> "",
                            error |-> "No subtitles found for language 'en'"]
            /\ pc' = "returned"
            /\ UNCHANGED <<vtt_content, video_duration>>
    /\ UNCHANGED <<chapters, info, cues, selected_chapters, lines, k, i,
                   chapter_ranges, r, subtitle_segments, seg, processed_lines,
                   seen_texts, result, output, raised>>
    /\ UNCHANGED <<cur_end_time, flat_vars, time_vars, rss_vars, clean_vars, tool_vars>>

\* lines 156-161
Respond ==
    /\ pc = "done"
    /\ response' = [success |-> TRUE, content |-> output, error |-> ""]
    /\ pc' = "returned"
    /\ UNCHANGED <<chapters, info, cues, vtt_content, selected_chapters,
                   all_chapters, video_duration, lines, k, i, chapter_ranges, r,
                   subtitle_segments, seg, processed_lines, seen_texts, result,
                   output, raised>>
    /\ UNCHANGED <<cur_end_time, flat_vars, time_vars, rss_vars, clean_vars, tool_vars>>

NextExtract == ConvertChapters \/ FetchSubtitles \/ Respond \/ Next

SpecExtract == InitExtract /\ [][NextExtract]_vars

(***************************************************************************)
(* _format_time (lines 470-486) and _time_to_seconds (lines 40-66) on      *)
(* their own: a time is formatted and parsed, or a value is parsed.        *)
(***************************************************************************)
MaxRoundTripSeconds == 359999

RECURSIVE Decimal(_)
\* str(n) for n >= 0
Decimal(n) == IF n < 10 THEN DigitChar(n) ELSE Decimal(n \div 10) \o DigitChar(n % 10)

\* f"{n:02d}" for n >= 0
Format02d(n) == IF n < 10 THEN "0" \o Decimal(n) ELSE Decimal(n)

\* lines 480-486 leaving the hours out
_format_time_no_hours(secs) ==
    Format02d(((secs \div MsPerSecond) % 3600) \div 60) \o ":"
    \o Format02d(((secs \div MsPerSecond) % 3600) % 60)

\* lines 480-486, for seconds >= 0 (given in milliseconds)
_format_time(secs) ==
    LET hours == (secs \div MsPerSecond) \div 3600
        remainder == (secs \div MsPerSecond) % 3600
    IN  IF hours > 0
        THEN Format02d(hours) \o ":" \o Format02d(remainder \div 60) \o ":"
             \o Format02d(remainder % 60)
        ELSE Format02d(remainder \div 60) \o ":" \o Format02d(remainder % 60)

\* the times that are formatted: every whole second up to MaxRoundTripSeconds
RoundTripSeconds == {t * MsPerSecond : t \in 0..MaxRoundTripSeconds}

RECURSIVE Zeros(_)
\* "0" * n
Zeros(n) ==
    IF n = 0 THEN ""
    ELSE IF n % 2 = 1 THEN "0" \o Zeros(n - 1)
    ELSE LET half == Zeros(n \div 2) IN half \o half

\* the values that are parsed, by shape: a number; h:m:s, m:s and a plain
\* number with the fraction frac of ms milliseconds; strings of no such
\* shape; a string whose hours are an integer of 401 digits
TimeFractions == {[text |-> "", ms |-> 0], [text |-> ".5", ms |-> 500],
                  [text |-> ".250", ms |-> 250]}

TimeCases ==
    {[shape |-> "num", ms |-> t] : t \in {0, 2500, 5000, 3723000}}
    \cup {[shape |-> "hms", h |-> h, m |-> m, s |-> sec, frac |-> f] :
             h \in {0, 1, 10}, m \in {0, 5, 59, 75}, sec \in {0, 7, 59},
             f \in TimeFractions}
    \cup {[shape |-> "ms", m |-> m, s |-> sec, frac |-> f] :
             m \in {0, 5, 59, 75}, sec \in {0, 7, 59}, f \in TimeFractions}
    \cup {[shape |-> "plain", s |-> sec, frac |-> f] :
             sec \in {0, 12, 90}, f \in TimeFractions}
    \cup {[shape |-> "bad", str |-> str] :
             str \in {"abc", "", "1:2:3:4", "1:xx", "x:00:01", "12:", ":", "1.2.3"}}
    \cup {[shape |-> "huge", str |-> "1" \o Zeros(400) \o ":00:00"]}

\* the value of a case as the caller passes it
TimeOf(c) ==
    CASE c.shape = "num" -> Num(c.ms)
      [] c.shape = "hms" ->
            Str(Decimal(c.h) \o ":" \o Format02d(c.m) \o ":" \o Format02d(c.s)
                \o c.frac.text)
      [] c.shape = "ms" -> Str(Decimal(c.m) \o ":" \o Format02d(c.s) \o c.frac.text)
      [] c.shape = "plain" -> Str(Decimal(c.s) \o c.frac.text)
      [] OTHER -> Str(c.str)

\* nothing of the caption engine is under way
EngineIdle ==
    /\ chapters = <<>>
    /\ info = NoInfo
    /\ response = NoResponse
    /\ cues = <<>>
    /\ vtt_content = ""
    /\ selected_chapters = <<>>
    /\ all_chapters = <<>>
    /\ video_duration = 0
    /\ Fresh
    /\ pc = "idle"

\* a value to parse
InitTimeParser ==
    /\ EngineIdle
    /\ RssIdle
    /\ CleanIdle
    /\ ToolIdle
    /\ seconds = None
    /\ time_value \in {TimeOf(c) : c \in TimeCases}
    /\ parsed = None
    /\ tpc = "parse"

\* a time to format and parse back
InitRoundTrip ==
    /\ EngineIdle
    /\ RssIdle
    /\ CleanIdle
    /\ ToolIdle
    /\ seconds \in RoundTripSeconds
    /\ time_value = Str("")
    /\ parsed = None
    /\ tpc = "format"

\* _format_time(seconds)
FormatTime ==
    /\ tpc = "format"
    /\ time_value' = Str(_format_time(seconds))
    /\ tpc' = "parse"
    /\ UNCHANGED <<chapters, info, response, cues, vtt_content, selected_chapters, all_chapters,
                   video_duration, lines, k, i, chapter_ranges, r,
                   subtitle_segments, seg, processed_lines, seen_texts, result,
                   output, raised, pc, cur_end_time>>
    /\ UNCHANGED <<flat_vars, rss_vars, clean_vars, tool_vars, seconds, parsed>>

\* _time_to_seconds(time_value)
ParseTime ==
    /\ tpc = "parse"
    /\ IF TimeOverflows(time_value)
       THEN /\ raised' = "OverflowError"
            /\ tpc' = "raised"
            /\ UNCHANGED parsed
       ELSE /\ parsed' = _time_to_seconds(time_value)
            /\ tpc' = "done"
            /\ UNCHANGED raised
    /\ UNCHANGED <<chapters, info, response, cues, vtt_content, selected_chapters, all_chapters,
                   video_duration, lines, k, i, chapter_ranges, r,
                   subtitle_segments, seg, processed_lines, seen_texts, result,
                   output, pc, cur_end_time>>
    /\ UNCHANGED <<flat_vars, rss_vars, clean_vars, tool_vars, seconds, time_value>>

SpecTimeParser == InitTimeParser /\ [][ParseTime]_vars

NextRoundTrip == FormatTime \/ ParseTime

SpecRoundTrip == InitRoundTrip /\ [][NextRoundTrip]_vars

(***************************************************************************)
(* rss2md (src/rss2md/src/rss2md/main.py): the fetch_rss_to_markdown tool. *)
(* Instants are whole hours counted from 2024-01-01 00:00 UTC.  The text   *)
(* of a result is the object that json.dumps encodes.                      *)
(***************************************************************************)
FETCH_RSS_TOOL_NAME == "fetch_rss_to_markdown"
DEFAULT_TIMEOUT == 15
HoursPerDay == 24
\* datetime.now(timezone.utc) of line 75: 2024-01-15 12:00 UTC
NowUtc == 348

\* the fields of FetchRssInput (lines 27-36)
InputFields == {"rss_url", "filter_since_date", "filter_last_days"}

\* line 40: the field is None (absent, its default)
IsNone(data, field) == field \notin DOMAIN data

\* lines 27-36: the errors of the fields, in the order of the fields
FieldErrors(args) ==
    (IF "rss_url" \notin DOMAIN args
     THEN <<"rss_url\n  Field required">> ELSE <<>>)
    \o (IF "filter_last_days" \in DOMAIN args /\ ~(args.filter_last_days > 0)
        THEN <<"filter_last_days\n  Input should be greater than 0">> ELSE <<>>)

\* lines 38-48 giving the message of line 41 for both filters too
check_exactly_one_filter_same(data) ==
    IF IsNone(data, "filter_since_date") = IsNone(data, "filter_last_days")
    THEN "Exactly one of 'filter_since_date' or 'filter_last_days' must be provided."
    ELSE ""

\* lines 38-48: the message of the ValueError raised, "" when none is raised
check_exactly_one_filter(data) ==
    IF IsNone(data, "filter_since_date") /\ IsNone(data, "filter_last_days")
    THEN "Exactly one of 'filter_since_date' or 'filter_last_days' must be provided."
    ELSE IF ~IsNone(data, "filter_since_date") /\ ~IsNone(data, "filter_last_days")
    THEN "Provide either 'filter_since_date' or 'filter_last_days', not both."
    ELSE ""

\* line 155: the errors of FetchRssInput(**arguments); the validator of
\* line 38 is an "after" validator, it runs when the fields are valid
ValidationErrors(args) ==
    IF FieldErrors(args) # <<>> THEN FieldErrors(args)
    ELSE IF check_exactly_one_filter(args) # ""
    THEN <<"  Value error, " \o check_exactly_one_filter(args)>>
    ELSE <<>>

\* line 155: the validated input, the fields of the model only
FetchRssInput(args) == [f \in DOMAIN args \cap InputFields |-> args[f]]

\* line 163: str(e) of a ValidationError, without the "[type=...]" tail of
\* each error
ValidationErrorText(errs) ==
    Decimal(Len(errs)) \o " validation error" \o (IF Len(errs) > 1 THEN "s" ELSE "")
        \o " for FetchRssInput\n" \o Join(errs, "\n")

\* lines 142-149 and others: the one text result of a call
TextResult(payload) == <<[type |-> "text", text |-> payload]>>

ErrorResult(message) == TextResult([status |-> "error", error_message |-> message])

\* lines 169-172
SchemeOk(url) == StartsWith(url, "http://") \/ StartsWith(url, "https://")

\* line 57 for YYYY-MM-DD strings of January 2024: dateutil parses the string
DateOk(s) ==
    /\ Len(s) = 10
    /\ SubSeq(s, 1, 8) = "2024-01-"
    /\ IsDigit(SubSeq(s, 9, 10))
    /\ DigitsValue(SubSeq(s, 9, 10)) \in 1..31

\* lines 54-70
_parse_iso_date_to_utc(s) ==
    IF DateOk(s)
    THEN [ok |-> TRUE, value |-> (DigitsValue(SubSeq(s, 9, 10)) - 1) * HoursPerDay]
    ELSE [ok |-> FALSE,
          error |-> "Invalid date format for '" \o s \o "': Unknown string format: " \o s]

\* lines 73-83: the tests are of truth, '' and None both fail the first
_calculate_cutoff_date(data) ==
    IF ~IsNone(data, "filter_since_date") /\ data.filter_since_date # ""
    THEN _parse_iso_date_to_utc(data.filter_since_date)
    ELSE IF ~IsNone(data, "filter_last_days") /\ data.filter_last_days # 0
    THEN [ok |-> TRUE, value |-> NowUtc - data.filter_last_days * HoursPerDay]
    ELSE [ok |-> FALSE, error |-> "No valid filter provided."]

\* the offsets from UTC, in hours, of the local time zone of the process
LocalUtcOffsets == {0, 2}

\* lines 86-105: time.mktime reads the struct_time as local time
_struct_time_to_utc_datetime(st, offset) == IF st = None THEN None ELSE st - offset

\* line 286: strftime("%Y-%m-%d %H:%M:%S UTC")
FormatDate(h) ==
    "2024-01-" \o Format02d(h \div HoursPerDay + 1) \o " "
        \o Format02d(h % HoursPerDay) \o ":00:00 UTC"

\* lines 108-117 and 273-275 for an entry whose summary is text without markup
MarkdownOf(entry) == entry.summary

\* lines 287-293
EntryMarkdown(entry, date) ==
    "## " \o entry.title \o "\n**Published:** " \o FormatDate(date)
        \o "\n**Link:** <" \o entry.link \o ">\n**Description:** " \o entry.summary
        \o "\n\n**Content:**\n\n" \o MarkdownOf(entry) \o "\n\n---"

RECURSIVE MarkdownEntries(_, _, _, _)
\* lines 245-298 from entry n on
MarkdownEntries(entries, n, cutoff, offset) ==
    IF n > Len(entries) THEN <<>>
    ELSE LET date == _struct_time_to_utc_datetime(entries[n].published_parsed, offset)
         IN  (IF date # None /\ date >= cutoff
              THEN <<EntryMarkdown(entries[n], date)>> ELSE <<>>)
             \o MarkdownEntries(entries, n + 1, cutoff, offset)

\* line 243
FeedTitle(f) == IF "title" \in DOMAIN f THEN f.title ELSE "Untitled Feed"

\* lines 300-304
FinalMarkdown(f, mds) ==
    IF Len(mds) = 0
    THEN "# " \o FeedTitle(f) \o "\n\nNo articles found matching the specified date filter."
    ELSE "# " \o FeedTitle(f) \o "\n\n" \o Join(mds, "\n\n")

\* line 200: feed.get("status", 200)
FeedStatus(f) == IF "status" \in DOMAIN f THEN f.status ELSE 200

\* lines 189-316 for a fetched feed: the result returned
ResultOfFeed(f, data, offset) ==
    IF FeedStatus(f) >= 400
    THEN ErrorResult("HTTP error fetching feed: Status " \o Decimal(f.status))
    ELSE IF Len(f.entries) = 0 /\ f.bozo
    THEN ErrorResult("Failed to parse feed: " \o f.bozo_exception)
    ELSE IF ~_calculate_cutoff_date(data).ok
    THEN ErrorResult(_calculate_cutoff_date(data).error)
    ELSE TextResult([status |-> "success",
                     markdown_content |->
                         FinalMarkdown(f, MarkdownEntries(f.entries, 1,
                                                          _calculate_cutoff_date(data).value,
                                                          offset))])

(***************************************************************************)
(* Inputs of call_tool, and what the network answers.                      *)
(***************************************************************************)
\* a keyword argument that is passed, or none
Opt(key, v) == IF v = <<>> THEN <<>> ELSE key :> v[1]

ToolNames == {FETCH_RSS_TOOL_NAME, "fetch_rss"}

RssUrls ==
    {<<>>, <<"http://feeds.example/rss">>, <<"https://feeds.example/atom">>,
     <<"ftp://feeds.example/rss">>}

SinceDates == {<<>>, <<"2024-01-10">>, <<"not-a-date">>, <<"">>}

LastDays == {<<>>, <<7>>, <<0>>}

ToolArguments ==
    {Opt("rss_url", u) @@ Opt("filter_since_date", s) @@ Opt("filter_last_days", d)
         @@ Opt("max_items", x) :
        u \in RssUrls, s \in SinceDates, d \in LastDays, x \in {<<>>, <<5>>}}

\* socket.getdefaulttimeout() before the call: none, or 30 seconds
Timeouts == {None, 30}

FeedEntry(title, published) ==
    [title |-> title, link |-> "https://feeds.example/" \o title,
     summary |-> "About " \o title, published_parsed |-> published]

\* published 2024-01-08 12:00, 2024-01-10 00:00, without date, 2024-01-14 06:00
FeedEntries ==
    <<FeedEntry("Before", 180), FeedEntry("Day", 216), FeedEntry("Undated", None),
      FeedEntry("Recent", 318)>>

Feeds ==
    {[status |-> 200, bozo |-> FALSE, title |-> "News", entries |-> FeedEntries],
     [bozo |-> FALSE, entries |-> SubSeq(FeedEntries, 1, 2)],
     [status |-> 404, bozo |-> FALSE, entries |-> <<>>],
     [status |-> 200, bozo |-> TRUE, bozo_exception |-> "not well-formed",
      entries |-> <<>>],
     [status |-> 200, bozo |-> TRUE, bozo_exception |-> "not well-formed",
      title |-> "News", entries |-> SubSeq(FeedEntries, 4, 4)]}

\* what feedparser.parse may raise
FetchErrors == {"timed out"}

InitRss ==
    /\ EngineIdle
    /\ TimeIdle
    /\ CleanIdle
    /\ ToolIdle
    /\ name \in ToolNames
    /\ arguments \in ToolArguments
    /\ default_timeout \in Timeouts
    /\ original_timeout = None
    /\ input_data = <<>>
    /\ feed = <<>>
    /\ fetches = 0
    /\ rss_result = <<>>
    /\ rpc = "call"

engine_vars ==
    <<chapters, info, response, cues, vtt_content, selected_chapters, all_chapters,
      video_duration, lines, k, i, chapter_ranges, r, subtitle_segments, seg,
      processed_lines, seen_texts, result, output, raised, pc, cur_end_time>>

\* lines 141-186 (and 332-335 when the call returns): the call up to the
\* fetch
CallTool ==
    /\ rpc = "call"
    /\ IF name # FETCH_RSS_TOOL_NAME
       THEN /\ rss_result' = ErrorResult("Unknown tool: " \o name)
            /\ rpc' = "returned"
            /\ UNCHANGED <<original_timeout, default_timeout, input_data, fetches>>
       ELSE /\ original_timeout' = default_timeout
            /\ IF ValidationErrors(arguments) # <<>>
               THEN /\ rss_result' =
                           ErrorResult("Input validation error: "
                                       \o ValidationErrorText(ValidationErrors(arguments)))
                    /\ default_timeout' = original_timeout'
                    /\ rpc' = "returned"
                    /\ UNCHANGED <<input_data, fetches>>
               ELSE /\ input_data' = FetchRssInput(arguments)
                    /\ IF ~SchemeOk(input_data'.rss_url)
                       THEN /\ rss_result' =
                                   ErrorResult("Invalid URL scheme. Only http:// or https:// allowed.")
                            /\ default_timeout' = original_timeout'
                            /\ rpc' = "returned"
                            /\ UNCHANGED fetches
                       ELSE /\ default_timeout' = DEFAULT_TIMEOUT
                            /\ fetches' = fetches + 1
                            /\ rpc' = "fetching"
                            /\ UNCHANGED rss_result
    /\ UNCHANGED <<name, arguments, feed>>
    /\ UNCHANGED <<engine_vars, flat_vars, time_vars, clean_vars, tool_vars>>

\* lines 186-187: feedparser.parse returns, the timeout is reset
FetchFeed ==
    /\ rpc = "fetching"
    /\ \E f \in Feeds : feed' = f
    /\ default_timeout' = original_timeout
    /\ rpc' = "fetched"
    /\ UNCHANGED <<name, arguments, original_timeout, input_data, fetches, rss_result>>
    /\ UNCHANGED <<engine_vars, flat_vars, time_vars, clean_vars, tool_vars>>

\* line 186 raising and the timeout left as it is
FetchRaisesNoFinally ==
    /\ rpc = "fetching"
    /\ \E e \in FetchErrors :
          rss_result' = ErrorResult("An unexpected error occurred: " \o e)
    /\ rpc' = "returned"
    /\ UNCHANGED <<name, arguments, default_timeout, original_timeout, input_data,
                   feed, fetches>>
    /\ UNCHANGED <<engine_vars, flat_vars, time_vars, clean_vars, tool_vars>>

\* line 186 raising, lines 318-335
FetchRaises ==
    /\ rpc = "fetching"
    /\ \E e \in FetchErrors :
          rss_result' = ErrorResult("An unexpected error occurred: " \o e)
    /\ default_timeout' = original_timeout
    /\ rpc' = "returned"
    /\ UNCHANGED <<name, arguments, original_timeout, input_data, feed, fetches>>
    /\ UNCHANGED <<engine_vars, flat_vars, time_vars, clean_vars, tool_vars>>

\* lines 189-316 and 332-335
ProcessFeed ==
    /\ rpc = "fetched"
    /\ \E offset \in LocalUtcOffsets :
          rss_result' = ResultOfFeed(feed, input_data, offset)
    /\ default_timeout' = original_timeout
    /\ rpc' = "returned"
    /\ UNCHANGED <<name, arguments, original_timeout, input_data, feed, fetches>>
    /\ UNCHANGED <<engine_vars, flat_vars, time_vars, clean_vars, tool_vars>>

\* what markdownify may raise on the content of an entry and on its summary
ConvertErrors == {"maximum recursion depth exceeded"}

\* the loop of lines 245-298 converts the content of an entry
ConvertsAnEntry(f, data, offset) ==
    /\ FeedStatus(f) < 400
    /\ ~(Len(f.entries) = 0 /\ f.bozo)
    /\ _calculate_cutoff_date(data).ok
    /\ MarkdownEntries(f.entries, 1, _calculate_cutoff_date(data).value, offset) # <<>>

\* lines 268-280 raising (markdownify fails on the content and on the
\* summary), lines 318-335
ProcessRaises ==
    /\ rpc = "fetched"
    /\ \E offset \in LocalUtcOffsets : ConvertsAnEntry(feed, input_data, offset)
    /\ \E e \in ConvertErrors :
          rss_result' = ErrorResult("An unexpected error occurred: " \o e)
    /\ default_timeout' = original_timeout
    /\ rpc' = "returned"
    /\ UNCHANGED <<name, arguments, original_timeout, input_data, feed, fetches>>
    /\ UNCHANGED <<engine_vars, flat_vars, time_vars, clean_vars, tool_vars>>

NextRss == CallTool \/ FetchFeed \/ FetchRaises \/ ProcessFeed \/ ProcessRaises

SpecRss == InitRss /\ [][NextRss]_vars

(***************************************************************************)
(* Caption streams for the dedupe loop and for the flat transcript: every  *)
(* sequence of up to MaxCues cues, one second apart, over a few texts that *)
(* repeat, contain and extend each other.                                  *)
(***************************************************************************)
StreamTexts == {"Hello", "world.", "Hello world.", "Goodbye.", "42"}

CueAt(n, text) == Cue((n - 1) * MsPerSecond, text)

CueStreams(max) ==
    UNION {{[n \in 1..len |-> CueAt(n, f[n])] : f \in [1..len -> StreamTexts]} :
              len \in 0..max}

\* the end of the one range, after the start of every cue
RangeEnd == MaxCues * MsPerSecond

\* _process_vtt_content(vtt, [All from 0], [Intro from 0], RangeEnd) at line
\* 254: the requested chapter matches no video chapter, the loop of line 217
\* leaves i = 0, line 246 takes the chapter for the last one, and its range
\* is [0, RangeEnd)
InitDedupe ==
    /\ chapters = <<>>
    /\ info = NoInfo
    /\ response = NoResponse
    /\ cues \in CueStreams(MaxCues)
    /\ vtt_content = RenderVtt(cues)
    /\ selected_chapters = <<Marker(0, "All")>>
    /\ all_chapters = <<VideoChapter(1)>>
    /\ video_duration = RangeEnd
    /\ lines = Split(vtt_content, "\n")
    /\ k = 2
    /\ i = [bound |-> TRUE, val |-> 0]
    /\ chapter_ranges = <<ChapterRange(Marker(0, "All"), RangeEnd)>>
    /\ r = 1
    /\ subtitle_segments = <<>>
    /\ seg = 1
    /\ processed_lines = <<>>
    /\ seen_texts = {}
    /\ result = <<>>
    /\ output = ""
    /\ raised = ""
    /\ cur_end_time = RangeEnd
    /\ ln = 1
    /\ current_sentence = ""
    /\ seen_sentences = {}
    /\ start_processing = FALSE
    /\ pc = "extract"
    /\ TimeIdle
    /\ RssIdle
    /\ CleanIdle
    /\ ToolIdle

NextDedupe == BeginRange \/ Dedupe \/ EndRange \/ Return

SpecDedupe == InitDedupe /\ [][NextDedupe]_vars

\* _process_vtt_content(vtt, [], None, 0): the flat transcript
InitFlat ==
    /\ chapters = <<>>
    /\ info = NoInfo
    /\ response = NoResponse
    /\ cues \in CueStreams(MaxFlatCues)
    /\ vtt_content = RenderVtt(cues)
    /\ selected_chapters = <<>>
    /\ all_chapters = <<>>
    /\ video_duration = 0
    /\ Fresh
    /\ pc = "start"
    /\ TimeIdle
    /\ RssIdle
    /\ CleanIdle
    /\ ToolIdle

NextFlat == StartFlat \/ FlatLine \/ FlatFinish

SpecFlat == InitFlat /\ [][NextFlat]_vars


(***************************************************************************)
(* _clean_subtitle_text (lines 447-468) on texts made of up to MaxTokens   *)
(* pieces of markup, blanks and letters.                                   *)
(***************************************************************************)
CleanTokens ==
    {"<c>", "</c>", "<", "c>", "<00:00:01.000>", "<00:00", ":01.000>", " ", "a"}

RECURSIVE Concat(_)
Concat(parts) == IF Len(parts) = 0 THEN "" ELSE parts[1] \o Concat(Tail(parts))

CleanTexts ==
    UNION {{Concat(f) : f \in [1..len -> CleanTokens]} : len \in 0..MaxTokens}

InitClean ==
    /\ EngineIdle
    /\ TimeIdle
    /\ RssIdle
    /\ ToolIdle
    /\ raw_text \in CleanTexts
    /\ cleaned_text = ""
    /\ cpc = "clean"

\* lines 447-468
Clean ==
    /\ cpc = "clean"
    /\ cleaned_text' = _clean_subtitle_text(raw_text)
    /\ cpc' = "done"
    /\ UNCHANGED raw_text
    /\ UNCHANGED <<engine_vars, flat_vars, time_vars, rss_vars, tool_vars>>

SpecClean == InitClean /\ [][Clean]_vars


(***************************************************************************)
(* call_tool of the ytdlp server (lines 564-585): the tool is chosen by    *)
(* name, the service is called, and the result or the exception becomes    *)
(* one text content.                                                       *)
(***************************************************************************)
YOUTUBE_CHAPTERS == "youtube_chapters"

YOUTUBE_SUBTITLES == "youtube_subtitles"

MaxToolChapters == 1

YtToolNames == {YOUTUBE_CHAPTERS, YOUTUBE_SUBTITLES, "youtube_search"}

\* the arguments of a call: url and chapters are each passed or not
YtToolArguments ==
    {Opt("url", u) @@ Opt("chapters", c) :
        u \in {<<>>, <<"https://youtu.be/v">>},
        c \in {<<>>} \cup
              {<<chs>> : chs \in UNION {[1..n -> RawMarkers] : n \in 0..MaxToolChapters}}}

\* what yt-dlp may raise
DownloadErrors == {"ERROR: Video unavailable"}

\* str(e) of the exceptions of the service
ExceptionText(kind) ==
    CASE kind = "UnboundLocalError" ->
           "cannot access local variable 'i' where it is not associated with a value"
      [] kind = "OverflowError" -> "int too large to convert to float"
      [] OTHER -> kind

RECURSIVE JsonEscape(_)
\* the characters of a JSON string: quotes, backslashes and newlines escaped
JsonEscape(s) ==
    IF s = "" THEN ""
    ELSE LET c == SubSeq(s, 1, 1)
         IN  (CASE c = "\"" -> "\\\""
                [] c = "\\" -> "\\\\"
                [] c = "\n" -> "\\n"
                [] OTHER -> c) \o JsonEscape(SubSeq(s, 2, Len(s)))

\* line 582: json.dumps({"error": str(e)})
JsonError(message) == "{\"error\": \"" \o JsonEscape(message) \o "\"}"

\* [TextContent(type="text", text=...)]
TextContent(text) == <<[type |-> "text", text |-> text]>>

\* lines 509-540: the chapters of the video one per line, or its title
ChaptersText(inf) ==
    IF Len(inf.chapters) > 0
    THEN Join([n \in 1..Len(inf.chapters) |->
                  _format_time(inf.chapters[n].start_time) \o " - "
                  \o inf.chapters[n].title], "\n")
    ELSE "00:00 - " \o (IF "title" \in DOMAIN inf THEN inf.title ELSE "Untitled Video")

\* result["content"] (lines 569 and 579): the dict of a failure has no such key
HasContent(res) == res.success

InitTool ==
    /\ tool_name \in YtToolNames
    /\ tool_arguments \in YtToolArguments
    /\ tool_result = <<>>
    /\ ypc = "call"
    /\ chapters = <<>>
    /\ info \in Infos
    /\ response = NoResponse
    /\ cues \in CueLists
    /\ vtt_content = ""
    /\ selected_chapters = <<>>
    /\ all_chapters = <<>>
    /\ video_duration = 0
    /\ Fresh
    /\ pc = "idle"
    /\ TimeIdle
    /\ RssIdle
    /\ CleanIdle

\* lines 566-581 up to the call of the service; a missing key is a KeyError
CallYtTool ==
    /\ ypc = "call"
    /\ IF tool_name = YOUTUBE_CHAPTERS
       THEN IF "url" \notin DOMAIN tool_arguments
            THEN /\ tool_result' = TextContent(JsonError("'url'"))
                 /\ ypc' = "returned"
                 /\ UNCHANGED <<chapters, pc>>
            ELSE /\ ypc' = "chapters"
                 /\ UNCHANGED <<tool_result, chapters, pc>>
       ELSE IF tool_name = YOUTUBE_SUBTITLES
       THEN IF \/ "chapters" \notin DOMAIN tool_arguments
               \/ Len(tool_arguments.chapters) = 0
            THEN /\ tool_result' = TextContent(JsonError("Chapter is required"))
                 /\ ypc' = "returned"
                 /\ UNCHANGED <<chapters, pc>>
            ELSE IF "url" \notin DOMAIN tool_arguments
            THEN /\ tool_result' = TextContent(JsonError("'url'"))
                 /\ ypc' = "returned"
                 /\ UNCHANGED <<chapters, pc>>
            ELSE /\ chapters' = tool_arguments.chapters
                 /\ pc' = "convert"
                 /\ ypc' = "subtitles"
                 /\ UNCHANGED tool_result
       ELSE /\ tool_result' = TextContent(JsonError("Unknown tool: " \o tool_name))
            /\ ypc' = "returned"
            /\ UNCHANGED <<chapters, pc>>
    /\ UNCHANGED <<info, response, cues, vtt_content, selected_chapters,
                   all_chapters, video_duration, lines, k, i, chapter_ranges, r,
                   subtitle_segments, seg, processed_lines, seen_texts, result,
                   output, raised>>
    /\ UNCHANGED <<cur_end_time, flat_vars, time_vars, rss_vars, clean_vars,
                   tool_name, tool_arguments>>

\* extract_chapters (lines 498-540) when yt-dlp answers
ExtractChapters ==
    /\ ypc = "chapters"
    /\ response' = [success |-> TRUE, content |-> ChaptersText(info), error |-> ""]
    /\ ypc' = "extracted"
    /\ UNCHANGED <<chapters, info, cues, vtt_content, selected_chapters,
                   all_chapters, video_duration, lines, k, i, chapter_ranges, r,
                   subtitle_segments, seg, processed_lines, seen_texts, result,
                   output, raised, pc>>
    /\ UNCHANGED <<cur_end_time, flat_vars, time_vars, rss_vars, clean_vars,
                   tool_name, tool_arguments, tool_result>>

\* extract_chapters (lines 542-543) when yt-dlp raises
ExtractChaptersFails ==
    /\ ypc = "chapters"
    /\ \E e \in DownloadErrors :
          response' = [success |-> FALSE, content |-> "",
                       error |-> "Failed to extract chapters: " \o e]
    /\ ypc' = "extracted"
    /\ UNCHANGED <<chapters, info, cues, vtt_content, selected_chapters,
                   all_chapters, video_duration, lines, k, i, chapter_ranges, r,
                   subtitle_segments, seg, processed_lines, seen_texts, result,
                   output, raised, pc>>
    /\ UNCHANGED <<cur_end_time, flat_vars, time_vars, rss_vars, clean_vars,
                   tool_name, tool_arguments, tool_result>>

\* extract_subtitles (lines 117-118, 168-169) when yt-dlp raises
DownloadFails ==
    /\ ypc = "subtitles"
    /\ pc = "fetch"
    /\ \E e \in DownloadErrors : raised' = e
    /\ pc' = "raised"
    /\ UNCHANGED <<chapters, info, response, cues, vtt_content, selected_chapters,
                   all_chapters, video_duration, lines, k, i, chapter_ranges, r,
                   subtitle_segments, seg, processed_lines, seen_texts, result,
                   output>>
    /\ UNCHANGED <<cur_end_time, flat_vars, time_vars, rss_vars, clean_vars, tool_vars>>

\* lines 569, 579 and 581-582: the content of the result, or the exception
ReturnYtTool ==
    /\ \/ ypc = "extracted"
       \/ ypc = "subtitles" /\ pc \in {"returned", "raised"}
    /\ tool_result' =
          IF ypc = "subtitles" /\ pc = "raised"
          THEN TextContent(JsonError(ExceptionText(raised)))
          ELSE IF HasContent(response)
          THEN TextContent(response.content)
          ELSE TextContent(JsonError("'content'"))
    /\ ypc' = "returned"
    /\ UNCHANGED <<engine_vars, flat_vars, time_vars, rss_vars, clean_vars,
                   tool_name, tool_arguments>>

\* the service runs as in NextExtract; call_tool passes it at least one
\* chapter (lines 572-573), so the transcript without chapters is not produced
NextTool ==
    \/ CallYtTool \/ ExtractChapters \/ ExtractChaptersFails \/ ReturnYtTool
    \/ ConvertChapters \/ FetchSubtitles \/ DownloadFails \/ Respond
    \/ Start \/ InferEnd \/ AppendRange \/ BeginRange \/ Dedupe \/ EndRange \/ Return

SpecTool == InitTool /\ [][NextTool]_vars


(***************************************************************************)
(* Properties.                                                             *)
(***************************************************************************)
\* chapters were requested (line 193)
Chaptered == Len(selected_chapters) > 0

\* every requested chapter has its range
Resolved == Chaptered /\ pc \in {"extract", "dedupe", "done"}

\* the body the code computes for a range
Body(rg) == _extract_subtitles_for_timerange(lines, rg.start, rg.end)

\* the ranges with their bodies
WithBodies ==
    [n \in 1..Len(chapter_ranges) |->
        [title |-> chapter_ranges[n].title, body |-> Body(chapter_ranges[n])]]

\* the ranges that are rendered, in order, with their bodies
Rendered == SelectSeq(WithBodies, LAMBDA rg : rg.body # "")

\* a cue of the stream has text to contribute (some line that is neither
\* blank after cleaning nor a bare number)
Usable(c) == CueText(Split(c.text, "\n"), 1, "") # ""

ScenarioCues ==
    <<Cue(0, "Hello"), Cue(1000, "Hello world"), Cue(2500, "Hello world."),
      Cue(10000, "Goodbye.")>>

ScenarioInput ==
    /\ cues = ScenarioCues
    /\ selected_chapters = <<MarkerTo(0, "Intro", 5000), Marker(5000, "Outro")>>
    /\ all_chapters = <<>>
    /\ video_duration = 12000

\* C1: the scenario of four cues, chapters Intro (0 to 5) and Outro (from 5),
\* no allChapters and duration 12 returns "## Intro\nHello world.\n\n## Outro\nGoodbye."
C1_Scenario ==
    ScenarioInput =>
        /\ pc # "raised"
        /\ pc = "done" => output = "## Intro\nHello world.\n\n## Outro\nGoodbye."

\* the sections "## {title}" sep body of the rendered ranges, joined by "\n\n"
SectionsJoined(rendered, sep) ==
    Join([n \in 1..Len(rendered) |->
             "## " \o rendered[n].title \o sep \o rendered[n].body],
         "\n\n")

C3_ChapterOmission ==
    (Chaptered /\ pc = "done") =>
        LET rendered == Rendered
        IN  /\ Len(result) = 2 * Len(rendered)
            /\ \A n \in 1..Len(rendered) :
                  /\ result[2 * n - 1] = "## " \o rendered[n].title
                  /\ result[2 * n] = rendered[n].body
                  /\ result[2 * n] # ""
            /\ \A n \in 1..Len(chapter_ranges) :
                  (\A m \in 1..Len(cues) :
                      ~(/\ Usable(cues[m])
                        /\ chapter_ranges[n].start <= cues[m].time
                        /\ cues[m].time < chapter_ranges[n].end))
                  => Body(chapter_ranges[n]) = ""

C3_Witness ==
    /\ pc = "done"
    /\ Len(chapter_ranges) = 2
    /\ Len(Rendered) = 1
    /\ cues # <<>>
    /\ output # ""

\* C4: an empty raw caption text gives the empty string and no error
C4_EmptyCaptions ==
    vtt_content = "" =>
        /\ pc # "raised"
        /\ pc = "done" => output = ""

\* the text the dedupe loop is about to process
CurrentText == Strip(subtitle_segments[seg].text)

\* C5: when the last emitted line is a substring of the current, unseen text,
\* the step replaces that line by the text and the number of lines does not
\* grow; the cues "AI cod", "AI coding is fun." yield the one line
\* "AI coding is fun."
C5_Supersede ==
    /\ [][(/\ pc = "dedupe"
           /\ seg <= Len(subtitle_segments)
           /\ Len(processed_lines) > 0
           /\ CurrentText \notin seen_texts
           /\ Contains(CurrentText, processed_lines[Len(processed_lines)]))
          => /\ processed_lines' =
                    [processed_lines EXCEPT ![Len(processed_lines)] = CurrentText]
             /\ Len(processed_lines') = Len(processed_lines)]_vars
    /\ []((/\ pc = "dedupe"
           /\ seg > Len(subtitle_segments)
           /\ [n \in 1..Len(subtitle_segments) |-> subtitle_segments[n].text]
                  = <<"AI cod", "AI coding is fun.">>)
          => processed_lines = <<"AI coding is fun.">>)

C5_Witness ==
    /\ pc = "dedupe"
    /\ seg = 3
    /\ subtitle_segments[1].text = "AI cod"
    /\ subtitle_segments[2].text = "AI coding is fun."
    /\ subtitle_segments[1].time < subtitle_segments[2].time
    /\ processed_lines = <<"AI coding is fun.">>

\* C6: a usable cue has a segment in the range being extracted if and only
\* if range.start <= cue start < range.end
C6_HalfOpen ==
    pc = "dedupe" =>
        \A m \in 1..Len(cues) :
            Usable(cues[m]) =>
                ((\E n \in 1..Len(subtitle_segments) :
                      subtitle_segments[n].time = cues[m].time)
                 <=> (/\ chapter_ranges[r].start <= cues[m].time
                      /\ cues[m].time < chapter_ranges[r].end))

C6_Witness ==
    /\ pc = "dedupe"
    /\ \E m \in 1..Len(cues) :
          /\ Usable(cues[m])
          /\ cues[m].time = chapter_ranges[r].start
          /\ \E n \in 1..Len(subtitle_segments) :
                subtitle_segments[n].time = cues[m].time
    /\ \E m \in 1..Len(cues) :
          /\ Usable(cues[m])
          /\ cues[m].time = chapter_ranges[r].end
          /\ \A n \in 1..Len(subtitle_segments) :
                subtitle_segments[n].time # cues[m].time

\* the chapter matches the entry n of all_chapters (start and title)
Matches(chapter, n) ==
    /\ all_chapters[n].start_time = chapter.start_time
    /\ all_chapters[n].title = chapter.title

LastChapter == selected_chapters[Len(selected_chapters)]
LastRange == chapter_ranges[Len(chapter_ranges)]

C9_TrailingBuffer ==
    Resolved =>
        \A n \in 1..(Len(chapter_ranges) - 1) :
            chapter_ranges[n].end =
                Min(BaseEnd(selected_chapters[n], selected_chapters, all_chapters,
                            video_duration) + BufferSeconds * MsPerSecond,
                    video_duration)

RECURSIVE Covers(_, _, _)
\* the union of the intervals [start, end) of the ranges contains [a, b)
Covers(ranges, a, b) ==
    \/ a >= b
    \/ LET at == {n \in 1..Len(ranges) : ranges[n].start <= a /\ a < ranges[n].end}
       IN  /\ at # {}
           /\ Covers(ranges,
                     CHOOSE e \in {ranges[n].end : n \in at} :
                         \A n \in at : ranges[n].end <= e,
                     b)

\* C10 as claimed: the ranges cover the video from 0 to D (checked for the
\* half-open [0, D), which the claim's [0, D] contains)
C10_CoversZeroToDuration ==
    Resolved => Covers(chapter_ranges, 0, video_duration)

\* C10 as amended: when no requested chapter has an explicit end or matches
\* an entry of all_chapters, the ranges cover [first start, D)
C10_CoversFromFirstStart ==
    Resolved =>
        ((\A n \in 1..Len(selected_chapters) :
              /\ ~HasEnd(selected_chapters[n])
              /\ \A m \in 1..Len(all_chapters) : ~Matches(selected_chapters[n], m))
         => Covers(chapter_ranges, selected_chapters[1].start_time, video_duration))

C10_Witness ==
    /\ pc = "done"
    /\ Len(chapter_ranges) = 2
    /\ \A n \in 1..Len(selected_chapters) :
          /\ ~HasEnd(selected_chapters[n])
          /\ \A m \in 1..Len(all_chapters) : ~Matches(selected_chapters[n], m)
    /\ selected_chapters[1].start_time < selected_chapters[2].start_time
    /\ selected_chapters[2].start_time < video_duration
    /\ Covers(chapter_ranges, selected_chapters[1].start_time, video_duration)

\* the string does not convert to a time (lines 56-63 raise ValueError)
Unparseable(v) == v.kind = "str" /\ ~TimeStringOk(v.str)

BadTimeSupplied ==
    \E n \in 1..Len(chapters) :
        \/ Unparseable(chapters[n].start_time)
        \/ HasEnd(chapters[n]) /\ Unparseable(chapters[n].end_time)

InferredFromSelected(n) ==
    /\ ~HasEnd(selected_chapters[n])
    /\ \A m \in 1..Len(all_chapters) : ~Matches(selected_chapters[n], m)

\* the ranges that contain the time of a cue
RangesAt(t) ==
    {n \in 1..Len(chapter_ranges) :
        chapter_ranges[n].start <= t /\ t < chapter_ranges[n].end}

\* C11 as claimed: consecutive ranges overlap by at most the 2-second buffer,
\* and a cue is rendered in at most two sections
C11_BoundedOverlap ==
    Resolved =>
        /\ \A n \in 1..(Len(chapter_ranges) - 1) :
              chapter_ranges[n].end
                  <= chapter_ranges[n + 1].start + BufferSeconds * MsPerSecond
        /\ \A m \in 1..Len(cues) : Cardinality(RangesAt(cues[m].time)) <= 2

\* C11 as amended: a range whose end is inferred from the requested chapters
\* ends at most 2 seconds after the start of the next range, when that range
\* starts later
C11_InferredOverlap ==
    Resolved =>
        \A n \in 1..(Len(chapter_ranges) - 1) :
            (/\ InferredFromSelected(n)
             /\ chapter_ranges[n].start < chapter_ranges[n + 1].start)
            => chapter_ranges[n].end
                   <= chapter_ranges[n + 1].start + BufferSeconds * MsPerSecond

\* the buffer is added in full: the first range ends 2 seconds into the second
C11_Witness ==
    /\ pc = "done"
    /\ Len(chapter_ranges) = 2
    /\ InferredFromSelected(1)
    /\ chapter_ranges[1].start < chapter_ranges[2].start
    /\ chapter_ranges[1].end = chapter_ranges[2].start + BufferSeconds * MsPerSecond
    /\ \E m \in 1..Len(cues) : Cardinality(RangesAt(cues[m].time)) = 2

\* the orders in which n chapters can be arranged
Orders(n) ==
    {p \in [1..n -> 1..n] : \A a, b \in 1..n : a # b => p[a] # p[b]}

\* the sections of the result carry the titles of the rendered ranges, in the
\* order of the ranges
SectionsInRangeOrder ==
    LET rendered == Rendered
    IN  /\ Len(result) = 2 * Len(rendered)
        /\ \A n \in 1..Len(rendered) :
              result[2 * n - 1] = "## " \o rendered[n].title

\* C12: the ranges are those of the chapters as passed, in non-decreasing
\* order of start, chapters with the same start in the order they were passed;
\* the sections of the output are in the order of the ranges
C12_SortedRanges ==
    /\ Resolved =>
          /\ Len(chapter_ranges) = Len(chapters)
          /\ \E p \in Orders(Len(chapters)) :
                /\ \A n \in 1..Len(chapters) :
                      /\ chapter_ranges[n].start
                             = _time_to_seconds(chapters[p[n]].start_time)
                      /\ chapter_ranges[n].title = chapters[p[n]].title
                /\ \A a, b \in 1..Len(chapters) :
                      a < b =>
                          /\ chapter_ranges[a].start <= chapter_ranges[b].start
                          /\ chapter_ranges[a].start = chapter_ranges[b].start
                                 => p[a] < p[b]
    /\ (Chaptered /\ pc = "done") => SectionsInRangeOrder

\* chapters passed out of order, and sections in the order of their starts
C12_Witness ==
    /\ pc = "done"
    /\ chapters = <<Marker(Num(5000), "Outro"), Marker(Str("0:00"), "Intro")>>
    /\ Len(chapter_ranges) = 2
    /\ chapter_ranges[1].title = "Intro"
    /\ chapter_ranges[2].title = "Outro"
    /\ Len(result) >= 3
    /\ result[1] = "## Intro"
    /\ result[3] = "## Outro"

\* extract_subtitles was called without chapters and the captions were read
NoChaptersProcessed ==
    Len(chapters) = 0 /\ info.subtitles /\ pc \in {"done", "returned"}

\* C13 as claimed: without chapters a single range [0, duration] titled with
\* the video title (or "Full Video") is resolved, and the transcript is one
\* section under that title
C13_SingleRange ==
    NoChaptersProcessed =>
        /\ chapter_ranges = <<[start |-> 0, end |-> video_duration,
                               title |-> WholeVideoTitle(info)]>>
        /\ output # "" => StartsWith(output, "## " \o WholeVideoTitle(info))

\* C13 as amended: without chapters no range is resolved and no chapter is
\* synthesized; the transcript is the flat one, without a heading.  With
\* chapters that have no end, a video without chapters of its own gives the
\* single all_chapters entry [0, duration] under the video title
C13_FlatTranscript ==
    /\ NoChaptersProcessed =>
          /\ chapter_ranges = <<>>
          /\ all_chapters = <<>>
          /\ result = <<>>
          /\ ~Contains(output, "## ")
          /\ cues = ScenarioCues => output = "Hello Hello world Hello world.\nGoodbye."
          /\ pc = "returned" =>
                response = [success |-> TRUE, content |-> output, error |-> ""]
    /\ (/\ pc \in {"start", "resolve", "buffer"}
        /\ Len(chapters) > 0
        /\ NoEndTimes(selected_chapters)
        /\ Len(info.chapters) = 0
        /\ info.duration # 0)
       => all_chapters = <<[start_time |-> 0, end_time |-> info.duration,
                            title |-> WholeVideoTitle(info)]>>

\* no chapters, a video of 12 seconds without chapters of its own and without
\* a title: the flat transcript is returned
C13_Witness ==
    /\ pc = "returned"
    /\ Len(chapters) = 0
    /\ cues = ScenarioCues
    /\ Len(info.chapters) = 0
    /\ info.duration = 12000
    /\ "title" \notin DOMAIN info
    /\ response.success
    /\ response.content = "Hello Hello world Hello world.\nGoodbye."

\* what C14 says of a value of each shape, in milliseconds
ExpectedTime(c) ==
    CASE c.shape = "num" -> c.ms
      [] c.shape = "hms" -> (c.h * 3600 + c.m * 60 + c.s) * MsPerSecond + c.frac.ms
      [] c.shape = "ms" -> (c.m * 60 + c.s) * MsPerSecond + c.frac.ms
      [] c.shape = "plain" -> c.s * MsPerSecond + c.frac.ms
      [] OTHER -> 0

\* the value being parsed is that of the case c
Parsing(c) == seconds = None /\ tpc # "idle" /\ time_value = TimeOf(c)

C15_RoundTrip ==
    (seconds # None /\ tpc \in {"done", "raised"}) =>
        /\ tpc = "done"
        /\ parsed = seconds

\* 359999 seconds are formatted as 99:59:59 and parsed back
C15_Witness ==
    /\ tpc = "done"
    /\ seconds = 359999 * MsPerSecond
    /\ time_value = Str("99:59:59")
    /\ parsed = seconds

\* a cue whose timing line starts with a time that does not parse
Malformed(c) == "stamp" \in DOMAIN c

\* the lines of the caption text without the blocks of the malformed cues
WellFormedLines ==
    Split(RenderVtt(SelectSeq(cues, LAMBDA c : ~Malformed(c))), "\n")

C17_DedupeStateless ==
    pc = "dedupe" =>
        /\ processed_lines =
               DedupeFrom(SubSeq(subtitle_segments, 1, seg - 1), 1, <<>>, {})
        /\ seen_texts \subseteq
               {Strip(subtitle_segments[n].text) : n \in 1..(seg - 1)}

\* the second range is done and has emitted a line that the first range
\* emitted too
C17_Witness ==
    /\ pc = "dedupe"
    /\ r = 2
    /\ seg > Len(subtitle_segments)
    /\ Len(result) = 2
    /\ \E n \in 1..Len(processed_lines) :
          \E j \in 1..Len(Split(result[2], "\n")) :
              Split(result[2], "\n")[j] = processed_lines[n]

\* the chapter whose end line 245 is about to buffer
CurrentChapter == selected_chapters[k]

\* n is the first entry of all_chapters that the chapter matches
FirstMatch(chapter, n) ==
    /\ Matches(chapter, n)
    /\ \A j \in 1..(n - 1) : ~Matches(chapter, j)

\* C19: a chapter without end that matches an entry of all_chapters ends,
\* before the buffer, at the start of the entry after it, or at the duration
\* when the matched entry is the last one
C19_EndFromAllChapters ==
    pc = "buffer" =>
        \A n \in 1..Len(all_chapters) :
            (~HasEnd(CurrentChapter) /\ FirstMatch(CurrentChapter, n)) =>
                cur_end_time = IF n = Len(all_chapters) THEN video_duration
                               ELSE all_chapters[n + 1].start_time

\* the first of two requested chapters matches the first of three video
\* chapters, the second requested one is the third of the video: the end is
\* the start of the second video chapter
C19_Witness ==
    /\ pc = "buffer"
    /\ k = 1
    /\ Len(selected_chapters) = 2
    /\ Len(all_chapters) = 3
    /\ ~HasEnd(CurrentChapter)
    /\ FirstMatch(CurrentChapter, 1)
    /\ selected_chapters[2].start_time = all_chapters[3].start_time
    /\ all_chapters[2].start_time < all_chapters[3].start_time
    /\ cur_end_time = all_chapters[2].start_time

\* the chapter has no end and matches no entry of all_chapters
Unmatched(chapter) ==
    /\ ~HasEnd(chapter)
    /\ \A n \in 1..Len(all_chapters) : ~Matches(chapter, n)

\* C20 as claimed: an unmatched chapter ends, before the buffer, at the start
\* of the next chapter of the sorted list, or at the duration when it is the
\* last one
C20_NextRequested ==
    pc = "buffer" =>
        (Unmatched(CurrentChapter) =>
            cur_end_time = IF k = Len(selected_chapters) THEN video_duration
                           ELSE selected_chapters[k + 1].start_time)

\* C20 as amended: an unmatched chapter ends, before the buffer, at the start
\* of the first chapter of the sorted list that starts later, or at the
\* duration when none starts later
C20_NextLaterRequested ==
    pc = "buffer" =>
        (Unmatched(CurrentChapter) =>
            LET later == {n \in (k + 1)..Len(selected_chapters) :
                             selected_chapters[n].start_time >
                                 CurrentChapter.start_time}
            IN  /\ \A n \in 1..k :
                      selected_chapters[n].start_time <= CurrentChapter.start_time
                /\ cur_end_time =
                       IF later = {} THEN video_duration
                       ELSE selected_chapters[CHOOSE n \in later :
                                \A j \in later : n <= j].start_time)

\* the video has chapters, the first of two requested chapters matches none
\* of them and ends at the start of the second
C20_Witness ==
    /\ pc = "buffer"
    /\ k = 1
    /\ Len(selected_chapters) = 2
    /\ Len(all_chapters) > 0
    /\ Unmatched(CurrentChapter)
    /\ selected_chapters[2].start_time > CurrentChapter.start_time
    /\ video_duration > selected_chapters[2].start_time
    /\ cur_end_time = selected_chapters[2].start_time

\* a fetch_rss_to_markdown call has returned
RssReturned == name = FETCH_RSS_TOOL_NAME /\ rpc = "returned"

Given(field) == field \in DOMAIN arguments

NoFilterGiven == ~Given("filter_since_date") /\ ~Given("filter_last_days")

BothFiltersGiven == Given("filter_since_date") /\ Given("filter_last_days")

\* the call has one text result of status "error"
OneErrorResult ==
    /\ Len(rss_result) = 1
    /\ rss_result[1].type = "text"
    /\ rss_result[1].text.status = "error"

\* the sentence of the validator for the filters given
FilterSentence ==
    IF NoFilterGiven
    THEN "Exactly one of 'filter_since_date' or 'filter_last_days' must be provided."
    ELSE "Provide either 'filter_since_date' or 'filter_last_days', not both."

\* C18 as claimed: a feed is fetched only when exactly one filter is given;
\* with neither or both the call returns one error result with the sentence
\* of the validator, and fetches nothing
C18_FilterValidation ==
    /\ (name = FETCH_RSS_TOOL_NAME /\ fetches > 0) =>
          (~NoFilterGiven /\ ~BothFiltersGiven)
    /\ (RssReturned /\ (NoFilterGiven \/ BothFiltersGiven)) =>
          /\ OneErrorResult
          /\ Contains(rss_result[1].text.error_message, FilterSentence)
          /\ fetches = 0

\* C18 as amended: the same, the sentence of the validator being in the
\* message when rss_url is given and filter_last_days, if given, is positive;
\* otherwise the message names the fields in error and not the filters' rule
C18_FilterValidationFields ==
    /\ (name = FETCH_RSS_TOOL_NAME /\ fetches > 0) =>
          (~NoFilterGiven /\ ~BothFiltersGiven)
    /\ (RssReturned /\ (NoFilterGiven \/ BothFiltersGiven)) =>
          /\ OneErrorResult
          /\ StartsWith(rss_result[1].text.error_message, "Input validation error: ")
          /\ fetches = 0
          /\ Contains(rss_result[1].text.error_message, FilterSentence)
                <=> (/\ Given("rss_url")
                     /\ Given("filter_last_days") => arguments.filter_last_days > 0)

\* a call with an http URL, a date and a number of days has returned the
\* error of the validator, without a fetch
C18_Witness ==
    /\ RssReturned
    /\ BothFiltersGiven
    /\ Given("rss_url")
    /\ StartsWith(arguments.rss_url, "http://")
    /\ arguments.filter_last_days = 7
    /\ OneErrorResult
    /\ Contains(rss_result[1].text.error_message, "not both")
    /\ fetches = 0

\* C21: a call with chapters raises nothing, and the chapter that line 246
\* takes for the last one is the last of the sorted requested list
C21_ResolutionNeverFails ==
    /\ Chaptered => pc # "raised"
    /\ (Chaptered /\ pc = "buffer" /\ i.bound) =>
          (IsLastChapter(i, selected_chapters) <=> k = Len(selected_chapters))

\* the dedupe loop is at a segment; its text (line 424)
AtSegment == pc = "dedupe" /\ seg <= Len(subtitle_segments)

SegmentText(n) == Strip(subtitle_segments[n].text)

\* the step of the loop for that segment
DedupeStepTaken == AtSegment /\ pc' = "dedupe" /\ seg' = seg + 1

\* the loop is over
DedupeOver == pc = "dedupe" /\ seg > Len(subtitle_segments)

\* the texts of the segments the loop has handled
HandledTexts == {SegmentText(n) : n \in 1..(seg - 1)}

NoRepeats(ls) == \A m, n \in 1..Len(ls) : ls[m] = ls[n] => m = n

\* C22: the seen set holds the texts that were appended or installed, the
\* emitted lines among them; a text that is in it leaves the lines unchanged;
\* no text is twice among the emitted lines
C22_ExactRepeat ==
    /\ [](pc = "dedupe" =>
            /\ NoRepeats(processed_lines)
            /\ \A n \in 1..Len(processed_lines) : processed_lines[n] \in seen_texts
            /\ seen_texts \subseteq HandledTexts)
    /\ [][DedupeStepTaken =>
            /\ SegmentText(seg) \in seen_texts => processed_lines' = processed_lines
            /\ processed_lines' # processed_lines =>
                  /\ processed_lines'[Len(processed_lines')] = SegmentText(seg)
                  /\ seen_texts' = seen_texts \cup {SegmentText(seg)}]_vars

\* "Hello world." was installed in place of "Hello", "Goodbye." was appended,
\* and a second "Hello world." has left the lines as they were
C22_Witness ==
    /\ pc = "dedupe"
    /\ seg = 5
    /\ [n \in 1..4 |-> SegmentText(n)] =
           <<"Hello", "Hello world.", "Goodbye.", "Hello world.">>
    /\ processed_lines = <<"Hello world.", "Goodbye.">>

\* C23: a text that is a substring of the last emitted line leaves the
\* emitted lines and the seen set unchanged
C23_SubstringOfLastSkip ==
    [][(/\ DedupeStepTaken
        /\ Len(processed_lines) > 0
        /\ Contains(processed_lines[Len(processed_lines)], SegmentText(seg)))
       => /\ processed_lines' = processed_lines
          /\ seen_texts' = seen_texts]_vars

\* "Hello" was skipped after "Hello world." and is emitted after "Goodbye."
C23_Witness ==
    /\ pc = "dedupe"
    /\ seg = 5
    /\ [n \in 1..4 |-> SegmentText(n)] =
           <<"Hello world.", "Hello", "Goodbye.", "Hello">>
    /\ processed_lines = <<"Hello world.", "Goodbye.", "Hello">>

\* lines fed back as cues at increasing timestamps
AsSegments(ls) == [n \in 1..Len(ls) |-> [time |-> n * MsPerSecond, text |-> ls[n]]]

Rededuped(ls) == DedupeFrom(AsSegments(ls), 1, <<>>, {})

\* C24 as claimed: the emitted lines are a fixed point of dedupe, no line is
\* a substring of the line before it or of the line after it
C24_FixedPoint ==
    pc = "dedupe" =>
        /\ Rededuped(processed_lines) = processed_lines
        /\ \A n \in 1..(Len(processed_lines) - 1) :
              /\ ~Contains(processed_lines[n], processed_lines[n + 1])
              /\ ~Contains(processed_lines[n + 1], processed_lines[n])

\* C24 as amended: no line is a substring of the line before it, and the
\* emitted lines are a fixed point of dedupe exactly when no line is a
\* substring of the line after it
C24_FixedPointUnlessExtended ==
    pc = "dedupe" =>
        /\ \A n \in 1..(Len(processed_lines) - 1) :
              ~Contains(processed_lines[n], processed_lines[n + 1])
        /\ Rededuped(processed_lines) = processed_lines
              <=> \A n \in 1..(Len(processed_lines) - 1) :
                      ~Contains(processed_lines[n + 1], processed_lines[n])

\* "Hello world." was installed in place of "Hello" after "world.": the first
\* line is a substring of the second, and dedupe of the two lines is one line
C24_Witness ==
    /\ DedupeOver
    /\ processed_lines = <<"world.", "Hello world.">>
    /\ Rededuped(processed_lines) = <<"Hello world.">>

\* the text of a cue as a segment has it (lines 389-406)
TextOfCue(c) == CueText(Split(c.text, "\n"), 1, "")

\* the cues that start in the range and have text
CuesInRange ==
    {m \in 1..Len(cues) :
        /\ ~Malformed(cues[m])
        /\ Usable(cues[m])
        /\ InTimerange(cues[m].time, chapter_ranges[r].start, chapter_ranges[r].end)}

\* C25: at the end of the loop the text of every cue that starts in the
\* range is a substring of an emitted line
C25_NoContentLost ==
    DedupeOver =>
        /\ Len(subtitle_segments) = Cardinality(CuesInRange)
        /\ \A m \in CuesInRange :
              \E n \in 1..Len(processed_lines) :
                  Contains(processed_lines[n], Strip(TextOfCue(cues[m])))

\* three cues, one line: "Hello" was skipped and "world." replaced
C25_Witness ==
    /\ DedupeOver
    /\ [n \in 1..Len(subtitle_segments) |-> SegmentText(n)] =
           <<"world.", "Hello world.", "Hello">>
    /\ processed_lines = <<"Hello world.">>

\* the lines of the returned transcript
OutputLines == IF output = "" THEN <<>> ELSE Split(output, "\n")

FlatDone == ~Chaptered /\ pc = "done"

\* C26: the lines of the flat transcript are distinct, none is a substring of
\* another, and every line of the pass is in one of them
C26_FinalCleanup ==
    FlatDone =>
        /\ NoRepeats(OutputLines)
        /\ \A m, n \in 1..Len(OutputLines) :
              m # n => ~Contains(OutputLines[n], OutputLines[m])
        /\ \A m \in 1..Len(processed_lines) :
              \E n \in 1..Len(OutputLines) :
                  Contains(OutputLines[n], processed_lines[m])

\* the pass completed "world." and "Hello Hello world.", the cleanup removed
\* the first
C26_Witness ==
    /\ FlatDone
    /\ processed_lines = <<"world.", "Hello Hello world.">>
    /\ output = "Hello Hello world."

RECURSIVE TextLines(_, _)
\* the text lines of the cues from the n-th on, cleaned, those left out that
\* are blank or purely numeric
TextLines(cs, n) ==
    IF n > Len(cs) THEN <<>>
    ELSE SelectSeq([j \in 1..Len(Split(cs[n].text, "\n")) |->
                       IF IsDigit(Strip(Split(cs[n].text, "\n")[j])) THEN ""
                       ELSE _clean_subtitle_text(Strip(Split(cs[n].text, "\n")[j]))],
                   LAMBDA f : f # "")
         \o TextLines(cs, n + 1)

Spaced(acc, f) == IF acc # "" THEN acc \o " " \o f ELSE f

Emitted(ls, sentence) ==
    IF \E n \in 1..Len(ls) : ls[n] = sentence THEN ls ELSE Append(ls, sentence)

RECURSIVE Accumulated(_, _, _, _, _)
\* the lines of the pass over the fragments from the n-th on; with skip, a
\* fragment that is a substring of the last line is passed over
Accumulated(frags, n, acc, ls, skip) ==
    IF n > Len(frags) THEN (IF acc # "" THEN Emitted(ls, acc) ELSE ls)
    ELSE IF skip /\ Len(ls) > 0 /\ Contains(ls[Len(ls)], frags[n])
    THEN Accumulated(frags, n + 1, acc, ls, skip)
    ELSE IF Char(frags[n], Len(frags[n])) \in {".", "!", "?"}
    THEN Accumulated(frags, n + 1, "", Emitted(ls, Spaced(acc, frags[n])), skip)
    ELSE Accumulated(frags, n + 1, Spaced(acc, frags[n]), ls, skip)

\* C27 as claimed: the lines of the pass are the sentences accumulated from
\* every text line of the cues
C27_Accumulation ==
    FlatDone => processed_lines = Accumulated(TextLines(cues, 1), 1, "", <<>>, FALSE)

\* C27 as amended: the same, a text line that is a substring of the last
\* completed line being passed over
C27_AccumulationSkipping ==
    FlatDone => processed_lines = Accumulated(TextLines(cues, 1), 1, "", <<>>, TRUE)

\* "Hello" after "Hello world." was passed over, "Goodbye." is a line of its
\* own, and the "Hello" left at the end is the last line
C27_Witness ==
    /\ FlatDone
    /\ [n \in 1..Len(cues) |-> cues[n].text] =
           <<"Hello world.", "Hello", "Goodbye.", "Hello">>
    /\ processed_lines = <<"Hello world.", "Goodbye.", "Hello">>

\* the text has a per-word timestamp tag
HasTimestampTag(s) == \E p \in 1..Len(s) : TimestampTagLen(s, p) > 0

\* C28: a cleaned text has no timestamp tag, no <c> and no </c>, no two
\* whitespace characters in a row, none at its ends, and cleaning it again
\* leaves it unchanged
C28_MarkupStripped ==
    cpc = "done" =>
        /\ ~HasTimestampTag(cleaned_text)
        /\ ~Contains(cleaned_text, "<c>")
        /\ ~Contains(cleaned_text, "</c>")
        /\ \A p \in 1..(Len(cleaned_text) - 1) :
              ~(Char(cleaned_text, p) \in Whitespace
                /\ Char(cleaned_text, p + 1) \in Whitespace)
        /\ Char(cleaned_text, 1) \notin Whitespace
        /\ Char(cleaned_text, Len(cleaned_text)) \notin Whitespace
        /\ _clean_subtitle_text(cleaned_text) = cleaned_text

\* the service has answered with a failure
ServiceFailed == ~response.success /\ response.error # ""

\* C29: call_tool of the youtube tools always returns one text content, and
\* when the service has reported a failure (success False with its error
\* message) the JSON error of the returned text carries that message
C29_ToolErrorReporting ==
    ypc = "returned" =>
        /\ Len(tool_result) = 1
        /\ tool_result[1].type = "text"
        /\ ServiceFailed => Contains(tool_result[1].text, response.error)

\* a call has returned after the service reported a failure
C29_FailureReturned == ypc = "returned" /\ ServiceFailed

\* a call has returned the content of a successful answer
C29_ContentReturned ==
    /\ ypc = "returned"
    /\ response.success
    /\ tool_result = TextContent(response.content)

\* C30: from the start of a call of the rss tool to its return, whatever the
\* path, the default socket timeout is the value it had when the call
\* started, except while the feed is being fetched, when it is DEFAULT_TIMEOUT
C30_TimeoutRestored ==
    \A t \in Timeouts :
        (rpc = "call" /\ default_timeout = t) =>
            [](default_timeout = IF rpc = "fetching" THEN DEFAULT_TIMEOUT ELSE t)

\* a call that started with a timeout of 30 seconds has fetched the feed and
\* returned after an exception
C30_Witness ==
    /\ rpc = "returned"
    /\ fetches = 1
    /\ original_timeout = 30
    /\ default_timeout = 30
    /\ \E e \in FetchErrors \cup ConvertErrors :
          rss_result = ErrorResult("An unexpected error occurred: " \o e)

====
